---- MODULE Spec2Model ----
(***************************************************************************)
(* Conversation / message synchronisation of the analytics dashboard:      *)
(* AgentsPage (cli-tool/src/analytics-web/components/AgentsPage.js) with   *)
(* its two pagination cursors, the per-conversation message cache, the     *)
(* real-time new_message push, the page fetches in flight and the response *)
(* cache of DataService (cli-tool/src/analytics-web/services/DataService.js)*)
(* that the fetches go through.                                            *)
(*                                                                         *)
(* JavaScript runs each handler to its next await without interruption, so *)
(* every action below is one synchronous segment: a handler up to the      *)
(* await of its fetch, or the continuation that runs when the fetch        *)
(* settles.                                                                *)
(***************************************************************************)
EXTENDS Integers, Sequences, FiniteSets, Bags, TLC

VARIABLES
  selectedConversationId, \* this.selectedConversationId
  pagination,             \* this.pagination (conversation-list cursor)
  messagesPagination,     \* this.messagesPagination (message cursor)
  loadedConversations,    \* this.loadedConversations
  loadedMessages,         \* this.loadedMessages (Map: conversation id -> messages)
  filters,                \* this.filters
  conversationStates,     \* state mapping last handed to stateService.updateConversationStates
  conversationsList,      \* DOM: ids of the items of #conversations-list, in order
  sidebarCount,           \* DOM: number written by updateResultsCount
  conversationBadges,     \* DOM: the state each item of #conversations-list shows
  emptyStateShown,        \* DOM: #empty-state shown, #conversations-list hidden
  messagesContent,        \* DOM: what #messages-content shows
  messagesScrollListener, \* conversation id captured by this.messagesScrollListener
  convFetches,            \* conversation-page fetches awaited by loadMoreConversations
  msgFetches,             \* message-page fetches awaited by loadMoreMessages
  cache,                  \* dataService.cache: the cache keys that hold a response
  sequential,             \* history: no fetch was pending at the last reset of this.pagination
  fullyLoaded,            \* history: the conversation whose response without pagination
                          \* metadata was applied since the last reset of this.messagesPagination
  last                    \* history: the handler segment that ran last

VARIABLES
  webSocketService,       \* DataService: this.webSocketService is set
  realTimeEnabled,        \* DataService: this.realTimeEnabled
  listening,              \* the handlers of setupWebSocketIntegration are registered
  refreshInterval,        \* DataService: this.refreshInterval (period of the timer it names)
  timers,                 \* the setInterval timers that are alive (bag of periods)
  timeouts,               \* pending 1-second timeouts of setupWebSocketIntegration
  pollFetches,            \* polling ticks awaiting their Promise.all
  now,                    \* Date.now(), in ms
  cacheEntries,           \* DataService: this.cache with its timestamps (key -> timestamp)
  dataFetches,            \* requests of cachedFetch awaiting the server
  outdated,               \* history: the cache keys whose response was requested before
                          \* the push event handled last
  dataLast                \* history: the DataService segment that ran last

pageVars == <<selectedConversationId, pagination, messagesPagination, loadedConversations,
          loadedMessages, filters, conversationStates, conversationsList, sidebarCount,
          conversationBadges,
          emptyStateShown, messagesContent, messagesScrollListener, convFetches,
          msgFetches, cache, sequential, fullyLoaded, last>>

timerVars == <<webSocketService, realTimeEnabled, listening, refreshInterval, timers,
               timeouts, pollFetches>>

cacheVars == <<now, cacheEntries, dataFetches, outdated>>

dataVars == <<timerVars, cacheVars, dataLast>>

vars == <<pageVars, dataVars>>

convVars == <<pagination, loadedConversations, filters, conversationStates,
              conversationsList, sidebarCount, conversationBadges, emptyStateShown,
              convFetches, sequential>>

msgVars == <<selectedConversationId, messagesPagination, messagesContent,
             messagesScrollListener, msgFetches, fullyLoaded>>

----------------------------------------------------------------------------
(* Bounds of the model *)

\* at most this many fetches of one cursor are awaited at the same time
MaxInFlight == 2

----------------------------------------------------------------------------
(* Values *)

Null == "null"
NoId == "undefined"
NoPage == 0 - 1

Limit == 10

\* the conversations the user opens
Convs == {"A", "B"}

\* the conversations the push channel reports on
PushConvs == {"A"}

Msg(id, timestamp, role) == [id |-> id, timestamp |-> timestamp, role |-> role]

EmptyMap == [c \in {} |-> <<>>]

----------------------------------------------------------------------------
(* The backend the page fetches from.  It is an external collaborator: the *)
(* model fixes one small data set and lets every fetch resolve, resolve    *)
(* without usable data, or reject, after any delay.                        *)

\* GET /api/conversations?page=p : the conversations of page p
ConversationPages == << <<"A", "B">>, <<"C">> >>

ServerConversations(p) ==
  IF p + 1 \in DOMAIN ConversationPages THEN ConversationPages[p + 1] ELSE <<>>

ServerConversationsHasMore(p) == p + 1 < Len(ConversationPages)

\* Date.now(), in seconds
Now == 100 * 24 * 60 * 60

\* title, project, lastMessage (a missing field is the empty text) and lastModified
\* of the conversations the server lists
ConversationInfo(id) ==
  CASE id = "A" -> [title |-> <<"F", "i", "x", " ", "b", "u", "g">>, project |-> <<>>,
                    lastMessage |-> <<>>, lastModified |-> Now - 2 * 60 * 60]
    [] id = "B" -> [title |-> <<>>, project |-> <<"U", "I">>,
                    lastMessage |-> <<"o", "k">>, lastModified |-> Now - 30 * 60]
    [] id = "D" -> [title |-> <<>>, project |-> <<>>,
                    lastMessage |-> <<>>, lastModified |-> Now - 60 * 60]
    [] id = "E" -> [title |-> <<>>, project |-> <<>>,
                    lastMessage |-> <<>>, lastModified |-> Now - 60 * 60 - 1]
    [] id = "F" -> [title |-> <<>>, project |-> <<>>,
                    lastMessage |-> <<>>, lastModified |-> Now - 24 * 60 * 60]
    [] id = "G" -> [title |-> <<>>, project |-> <<>>,
                    lastMessage |-> <<>>, lastModified |-> Now - 30 * 24 * 60 * 60 - 1]
    [] id = "H" -> [title |-> <<>>, project |-> <<>>,
                    lastMessage |-> <<>>, lastModified |-> Now - 7 * 24 * 60 * 60]
    [] OTHER -> [title |-> <<"d", "o", "c", "s">>, project |-> <<>>,
                 lastMessage |-> <<>>, lastModified |-> Now - 3 * 24 * 60 * 60]

\* a longer list, served as one page, with conversations on both sides of the
\* cutoffs of the time ranges
FilterList == <<"A", "B", "C", "D", "E", "F", "G", "H">>

\* the values of #time-filter and a value getTimeRangeMs does not know
FilterTimeRanges == {"1h", "24h", "7d", "30d", "all"}

\* the texts typed into #search-filter: none, one in capitals, one in small
\* letters for a project in capitals, one in mixed case, one that occurs nowhere
FilterSearches ==
  {<<>>, <<"B", "U", "G">>, <<"u", "i">>, <<"O", "k">>, <<"z">>}

\* the states the server reports, "Compacting..." being one getStateCategory does
\* not list
StateInputs ==
  <<"Claude Code working...", "Idle", "Compacting...", "Awaiting user input...",
    "User typing...", "Awaiting response...", "Recently active", "Inactive", "Old",
    "unknown">>

\* the two forms in which an update_conversation_states event carries a mapping
StatePayloads(mappings) == mappings \cup { [activeStates |-> M] : M \in mappings }

\* activeStates mappings: mapping number n gives conversation k of FilterList state
\* k + n of StateInputs (cyclically) and has no entry for one conversation
StateMappings ==
  { [id \in { FilterList[k] : k \in DOMAIN FilterList }
             \ { FilterList[((n + 3) % Len(FilterList)) + 1] }
       |-> StateInputs[(((CHOOSE k \in DOMAIN FilterList : FilterList[k] = id) + n)
                          % Len(StateInputs)) + 1]]
    : n \in 1 .. Len(StateInputs) }

\* GET /api/conversation-state : activeStates
ServerActiveStates == [c \in {"A"} |-> "Claude Code working..."]

\* GET /api/conversations/c/messages?page=p : page 0 holds the newest messages.
\* A is served page by page, B in one response without pagination metadata.
MessagePages(c) ==
  IF c = "A"
  THEN << <<Msg("a3", 3, "user")>>,
          <<Msg("a1", 1, "user"), Msg("a2", 2, "assistant")>> >>
  ELSE << <<Msg(NoId, 5, "user")>> >>

ServerPaginated(c) == c = "A"

ServerMessages(c, p) ==
  IF p + 1 \in DOMAIN MessagePages(c) THEN MessagePages(c)[p + 1] ELSE <<>>

ServerMessagesHasMore(c, p) == p + 1 < Len(MessagePages(c))

\* the values the user picks in #status-filter and #time-filter and types into
\* #search-filter
StatusInputs == {"all", "active", "inactive"}

TimeRangeInputs == {"1h", "7d"}

SearchInputs == {<<>>, <<"B", "u", "g">>}

\* messages the push channel may deliver
PushMessages == { Msg("n9", 9, "user") }

\* pushed messages with and without id: one that is new, one that repeats the
\* timestamp and role of a3, one that repeats no cached timestamp and role
DedupMessages == { Msg("n9", 9, "user"), Msg(NoId, 3, "user"), Msg(NoId, 8, "assistant") }

----------------------------------------------------------------------------
(* History variable *)

\* message: the pushed message the segment was given; rendered, scrolled: the
\* segment called renderCachedMessages, scrollToBottom; payload: the
\* conversationStates an update_conversation_states event carried
NoMessage == [id |-> NoId, timestamp |-> NoPage, role |-> Null]

Ev(op, conv, page, initial, stale, refused) ==
  [op |-> op, conv |-> conv, page |-> page, initial |-> initial,
   stale |-> stale, refused |-> refused, message |-> NoMessage,
   rendered |-> FALSE, scrolled |-> FALSE, payload |-> EmptyMap]

\* every fetch in flight when a cursor is reset was issued before that reset
MarkStale(fetches) ==
  LET marked == {[f EXCEPT !.stale = TRUE] : f \in BagToSet(fetches)}
  IN [g \in marked |-> CopiesIn(g, fetches) + CopiesIn([g EXCEPT !.stale = FALSE], fetches)]

\* the fetches of a cursor are awaited independently: a bag, any of them settles next
AddFetch(fetches, f) == fetches (+) SetToBag({f})

SettleFetch(fetches, f) == fetches (-) SetToBag({f})

----------------------------------------------------------------------------
(* DataService.cachedFetch and its cache.  A request that finds a fresh    *)
(* entry is answered from it before any other handler runs; any time may   *)
(* pass between two handlers, so an entry may have expired at any request  *)
(* and the requests in flight are the ones that went to the network.  A    *)
(* request whose network call fails is answered from the entry of its key, *)
(* however old, and rejects only when the cache holds none.                *)

\* cacheKey of /api/conversations?page=p&limit=10
ConversationsKey(p) == [endpoint |-> "/api/conversations", conversationId |-> Null,
                        page |-> p]

\* cacheKey of /api/conversation-state
StatesKey == [endpoint |-> "/api/conversation-state", conversationId |-> Null,
              page |-> NoPage]

\* cacheKey of /api/conversations/c/messages?page=p&limit=10
MessagesKey(c, p) == [endpoint |-> "/api/conversations/c/messages", conversationId |-> c,
                      page |-> p]

\* this.cache.set(cacheKey, ...) of the requests that got a response
CacheSet(keys) == cache \cup keys

\* cachedFetch throws: the network call failed and cache.has(cacheKey) is false
CanReject(key) == key \notin cache

\* clearCacheEntry('/api/conversations/c/messages')
clearCacheEntry(c) ==
  {key \in cache : ~(key.endpoint = "/api/conversations/c/messages"
                     /\ key.conversationId = c)}

----------------------------------------------------------------------------
(* Filtering and rendering of the conversation list *)

\* a faulty getStateCategory that C19 must tell apart: a state that is not listed
\* counts as active
getStateCategory_defaultActive(state) ==
  IF state \in {"Idle", "Inactive", "Old", "unknown"} THEN "inactive" ELSE "active"

getStateCategory(state) ==
  IF state \in {"Claude Code working...", "Awaiting user input...", "User typing...",
                "Awaiting response...", "Recently active"}
  THEN "active"
  ELSE IF state \in {"Idle", "Inactive", "Old", "unknown"}
       THEN "inactive"
       ELSE "inactive"

\* states[conv.id] || 'unknown'
StateOf(states, id) == IF id \in DOMAIN states THEN states[id] ELSE "unknown"

\* a faulty getTimeRangeMs that C20 must tell apart: '1h' is taken for a day
getTimeRangeMs_hourIsDay(range) ==
  CASE range \in {"1h", "24h"} -> 24 * 60 * 60
    [] range = "7d" -> 7 * 24 * 60 * 60
    [] range = "30d" -> 30 * 24 * 60 * 60
    [] OTHER -> 0

\* getTimeRangeMs, in seconds (every time of the model is a whole second)
getTimeRangeMs(range) ==
  CASE range = "1h" -> 60 * 60
    [] range = "24h" -> 24 * 60 * 60
    [] range = "7d" -> 7 * 24 * 60 * 60
    [] range = "30d" -> 30 * 24 * 60 * 60
    [] OTHER -> 0

\* a faulty toLowerCase that C21 must tell apart: the text is left as it is
toLowerCase_identity(text) == text

\* String.prototype.toLowerCase on a text given as its sequence of characters
toLowerCase(text) ==
  [k \in DOMAIN text |->
     CASE text[k] = "B" -> "b"
       [] text[k] = "U" -> "u"
       [] text[k] = "G" -> "g"
       [] text[k] = "F" -> "f"
       [] text[k] = "I" -> "i"
       [] text[k] = "O" -> "o"
       [] text[k] = "K" -> "k"
       [] OTHER -> text[k]]

\* String.prototype.includes
includes(text, part) ==
  \E k \in 0 .. (Len(text) - Len(part)) : SubSeq(text, k + 1, k + Len(part)) = part

filterConversations(conversations, states) ==
  LET byStatus(id) == getStateCategory(StateOf(states, id)) = filters.status
      timeRange == getTimeRangeMs(filters.timeRange)
      cutoff == Now - timeRange
      byTime(id) == ConversationInfo(id).lastModified >= cutoff
      searchLower == toLowerCase(filters.search)
      bySearch(id) ==
        \/ includes(toLowerCase(ConversationInfo(id).title), searchLower)
        \/ includes(toLowerCase(ConversationInfo(id).project), searchLower)
        \/ includes(toLowerCase(ConversationInfo(id).lastMessage), searchLower)
      f1 == IF filters.status # "all" THEN SelectSeq(conversations, byStatus)
            ELSE conversations
      f2 == IF timeRange > 0 THEN SelectSeq(f1, byTime) ELSE f1
      f3 == IF filters.search # <<>> THEN SelectSeq(f2, bySearch) ELSE f2
  IN f3

\* renderConversationsList: the new <<conversationsList, sidebarCount, emptyStateShown>>
renderConversationsList(conversations, states, append) ==
  LET filtered == filterConversations(conversations, states)
  IN IF Len(filtered) = 0 /\ ~append
     THEN <<conversationsList, Len(filtered), TRUE>>
     ELSE <<IF append THEN conversationsList \o filtered ELSE filtered,
            Len(filtered), FALSE>>

\* renderConversationsList: the state shown by each item of the list
renderBadges(conversations, states, append) ==
  LET filtered == filterConversations(conversations, states)
      badges == [k \in DOMAIN filtered |-> StateOf(states, filtered[k])]
  IN IF Len(filtered) = 0 /\ ~append
     THEN conversationBadges
     ELSE IF append THEN conversationBadges \o badges ELSE badges

\* a faulty activeStatesOf that C23 must tell apart: the nested form is not known
activeStatesOf_direct(carried) == carried

\* state.conversationStates?.activeStates || state.conversationStates || {}
activeStatesOf(carried) ==
  IF "activeStates" \in DOMAIN carried THEN carried.activeStates ELSE carried

\* updateConversationStates(activeStates): the list is rendered again from the
\* conversations held by the state service
updateConversationStates(activeStates) ==
  LET dom == renderConversationsList(loadedConversations, activeStates, FALSE)
  IN /\ conversationStates' = activeStates
     /\ conversationsList' = dom[1]
     /\ sidebarCount' = dom[2]
     /\ emptyStateShown' = dom[3]
     /\ conversationBadges' = renderBadges(loadedConversations, activeStates, FALSE)
     /\ UNCHANGED <<pagination, loadedConversations, filters, convFetches, sequential,
                    loadedMessages, cache>>
     /\ UNCHANGED msgVars

\* handleStateChange(state, 'update_conversation_states')
HandleStateChange(carried) ==
  /\ updateConversationStates(activeStatesOf(carried))
  /\ last' = [Ev("updateConversationStates", Null, NoPage, FALSE, FALSE, FALSE)
                EXCEPT !.payload = carried]

\* stateService.getStateProperty('conversationStates'): the value that
\* stateService.updateConversationStates was handed last
StoredStates == conversationStates

\* statesData?.activeStates || {}
storedActiveStates(statesData) ==
  IF "activeStates" \in DOMAIN statesData THEN statesData.activeStates ELSE EmptyMap

\* handleStateChange(state, 'conversation_state_change') ->
\* handleConversationStateChange -> refreshConversationsDisplay
HandleConversationStateChange ==
  LET activeStates == storedActiveStates(StoredStates)
      dom == renderConversationsList(loadedConversations, activeStates, FALSE)
  IN /\ conversationsList' = dom[1]
     /\ sidebarCount' = dom[2]
     /\ emptyStateShown' = dom[3]
     /\ conversationBadges' = renderBadges(loadedConversations, activeStates, FALSE)
     /\ last' = Ev("handleConversationStateChange", Null, NoPage, FALSE, FALSE, FALSE)
     /\ UNCHANGED <<pagination, loadedConversations, filters, conversationStates,
                    convFetches, sequential, loadedMessages, cache>>
     /\ UNCHANGED msgVars

----------------------------------------------------------------------------
(* Conversation-list cursor *)

ResetPagination ==
  [currentPage |-> 0, limit |-> Limit, hasMore |-> TRUE, isLoading |-> FALSE]

\* a faulty CanLoad that C5 must tell apart: the admission test forgets isLoading
CanLoad_ignoresLoading(cursor) == cursor.hasMore

\* the admission test of loadMoreConversations / loadMoreMessages
CanLoad(cursor) == ~(cursor.isLoading \/ ~cursor.hasMore)

\* loadMoreConversations up to its await, from cursor value pag
loadMoreConversationsBegin(pag, fetches) ==
  IF CanLoad(pag)
  THEN <<[pag EXCEPT !.isLoading = TRUE],
         AddFetch(fetches, [page |-> pag.currentPage, stale |-> FALSE])>>
  ELSE <<pag, fetches>>

\* a faulty loadMoreConversations that C22 must tell apart: it clears the cached
\* messages as loadConversationsData does
LoadMoreConversations_clears ==
  /\ conversationsList # <<>> /\ ~emptyStateShown
  /\ CanLoad(pagination) => BagCardinality(convFetches) < MaxInFlight
  /\ LET r == loadMoreConversationsBegin(pagination, convFetches)
     IN /\ pagination' = r[1]
        /\ convFetches' = r[2]
  /\ loadedMessages' = EmptyMap
  /\ last' = Ev("loadMoreConversations", Null, pagination.currentPage, FALSE, FALSE,
                ~CanLoad(pagination))
  /\ UNCHANGED <<loadedConversations, filters, conversationStates, conversationBadges,
                 conversationsList, sidebarCount, emptyStateShown, sequential, cache>>
  /\ UNCHANGED msgVars

\* scroll near the bottom of #conversations-list
LoadMoreConversations ==
  /\ conversationsList # <<>> /\ ~emptyStateShown
  /\ CanLoad(pagination) => BagCardinality(convFetches) < MaxInFlight
  /\ LET r == loadMoreConversationsBegin(pagination, convFetches)
     IN /\ pagination' = r[1]
        /\ convFetches' = r[2]
  /\ last' = Ev("loadMoreConversations", Null, pagination.currentPage, FALSE, FALSE,
                ~CanLoad(pagination))
  /\ UNCHANGED <<loadedConversations, loadedMessages, filters, conversationStates,
                 conversationBadges,
                 conversationsList, sidebarCount, emptyStateShown, sequential, cache>>
  /\ UNCHANGED msgVars

\* loadConversationsData: reset, clear, then loadMoreConversations up to its await
loadConversationsDataBegin(op) ==
  /\ BagCardinality(convFetches) < MaxInFlight
  /\ LET r == loadMoreConversationsBegin(ResetPagination, MarkStale(convFetches))
     IN /\ pagination' = r[1]
        /\ convFetches' = r[2]
  /\ loadedConversations' = <<>>
  /\ loadedMessages' = EmptyMap
  /\ conversationsList' = <<>>
  /\ conversationBadges' = <<>>
  /\ emptyStateShown' = FALSE
  /\ sequential' = (convFetches = EmptyBag)
  /\ last' = Ev(op, Null, 0, TRUE, FALSE, FALSE)
  /\ UNCHANGED <<conversationStates, sidebarCount>>
  /\ UNCHANGED msgVars

\* initialize(), the retry button of the error state
LoadConversationsData ==
  /\ loadConversationsDataBegin("loadConversationsData")
  /\ UNCHANGED <<filters, cache>>

\* the refresh button, once clearServerCache has settled: dataService cleared its
\* cache if the server answered ok, then loadConversationsData
RefreshConversations(ok) ==
  /\ cache' = IF ok THEN {} ELSE cache
  /\ loadConversationsDataBegin("refreshConversations")
  /\ UNCHANGED filters

\* updateFilter(name, value) -> refreshFromBeginning -> loadConversationsData
UpdateFilter(filterName, value) ==
  /\ filters' = [filters EXCEPT ![filterName] = value]
  /\ loadConversationsDataBegin("updateFilter")
  /\ UNCHANGED cache

\* clearAllFilters -> refreshFromBeginning -> loadConversationsData
ClearAllFilters ==
  /\ filters' = [status |-> "all", timeRange |-> "7d", search |-> <<>>]
  /\ loadConversationsDataBegin("clearAllFilters")
  /\ UNCHANGED cache

\* a faulty pushConversations that C8 must tell apart: the new page replaces the list
pushConversations_replaces(loaded, newConversations) == newConversations

\* this.loadedConversations.push(...newConversations)
pushConversations(loaded, newConversations) == loaded \o newConversations

\* the continuation of loadMoreConversations when both fetches resolved
ConversationsFetchResolved(f) ==
  LET newConversations == ServerConversations(f.page)
      activeStates == ServerActiveStates
      loaded == pushConversations(loadedConversations, newConversations)
      isInitialLoad == f.page = 0
      dom == renderConversationsList(IF isInitialLoad THEN loaded ELSE newConversations,
                                     activeStates, ~isInitialLoad)
  IN /\ pagination' = [pagination EXCEPT !.hasMore = ServerConversationsHasMore(f.page),
                                         !.currentPage = f.page + 1,
                                         !.isLoading = FALSE]
     /\ loadedConversations' = loaded
     /\ conversationStates' = activeStates
     /\ conversationsList' = dom[1]
     /\ sidebarCount' = dom[2]
     /\ emptyStateShown' = dom[3]
     /\ conversationBadges' =
          renderBadges(IF isInitialLoad THEN loaded ELSE newConversations,
                       activeStates, ~isInitialLoad)
     /\ convFetches' = SettleFetch(convFetches, f)
     /\ cache' = CacheSet({ConversationsKey(f.page), StatesKey})
     /\ last' = Ev("conversationsResolved", Null, f.page, isInitialLoad, f.stale, FALSE)
     /\ UNCHANGED <<loadedMessages, filters, sequential>>
     /\ UNCHANGED msgVars

\* the continuation of loadMoreConversations when one request of its Promise.all
\* rejected; the other request may have got its response
ConversationsFetchRejected(f) ==
  /\ \/ /\ CanReject(ConversationsKey(f.page))
        /\ cache' \in {cache, CacheSet({StatesKey})}
     \/ /\ CanReject(StatesKey)
        /\ cache' \in {cache, CacheSet({ConversationsKey(f.page)})}
  /\ pagination' = [pagination EXCEPT !.isLoading = FALSE]
  /\ convFetches' = SettleFetch(convFetches, f)
  /\ last' = Ev("conversationsRejected", Null, f.page, f.page = 0, f.stale, FALSE)
  /\ UNCHANGED <<loadedConversations, loadedMessages, filters, conversationStates,
                 conversationBadges,
                 conversationsList, sidebarCount, emptyStateShown, sequential>>
  /\ UNCHANGED msgVars

----------------------------------------------------------------------------
(* Message cursor, message cache and message panel *)

ResetMessagesPagination(conversationId) ==
  [currentPage |-> 0, limit |-> Limit, hasMore |-> TRUE, isLoading |-> FALSE,
   conversationId |-> conversationId]

\* this.loadedMessages.get(id) || []
GetMessages(map, id) == IF id \in DOMAIN map THEN map[id] ELSE <<>>

SetMessages(map, id, messages) == (id :> messages) @@ map

\* a faulty DeleteMessages that C9 must tell apart: the cached messages are kept
DeleteMessages_keeps(map, id) == map

DeleteMessages(map, id) == [c \in DOMAIN map \ {id} |-> map[c]]

Panel(kind, messages, retry) == [kind |-> kind, messages |-> messages, retry |-> retry]

\* a faulty loadMoreMessagesBegin that C34 must tell apart: the conversation of
\* the cursor is not compared with the one asked for
loadMoreMessagesBegin_anyId(mp, fetches, conversationId, isInitialLoad) ==
  IF ~CanLoad(mp)
  THEN <<mp, fetches, messagesContent>>
  ELSE <<[mp EXCEPT !.isLoading = TRUE],
         AddFetch(fetches, [conversationId |-> conversationId, page |-> mp.currentPage,
                            isInitialLoad |-> isInitialLoad, stale |-> FALSE]),
         IF isInitialLoad THEN Panel("loading", <<>>, Null) ELSE messagesContent>>

\* loadMoreMessages(conversationId, isInitialLoad) up to its await, from cursor
\* value mp: the new <<messagesPagination, msgFetches, messagesContent>>
loadMoreMessagesBegin(mp, fetches, conversationId, isInitialLoad) ==
  IF ~CanLoad(mp) \/ mp.conversationId # conversationId
  THEN <<mp, fetches, messagesContent>>
  ELSE <<[mp EXCEPT !.isLoading = TRUE],
         AddFetch(fetches, [conversationId |-> conversationId, page |-> mp.currentPage,
                            isInitialLoad |-> isInitialLoad, stale |-> FALSE]),
         IF isInitialLoad THEN Panel("loading", <<>>, Null) ELSE messagesContent>>

\* loadConversationMessages(conversationId): reset the cursor, drop the cached
\* messages of the conversation, then loadMoreMessages(conversationId, true)
loadConversationMessages(conversationId) ==
  /\ BagCardinality(msgFetches) < MaxInFlight
  /\ LET r == loadMoreMessagesBegin(ResetMessagesPagination(conversationId),
                                    MarkStale(msgFetches), conversationId, TRUE)
     IN /\ messagesPagination' = r[1]
        /\ msgFetches' = r[2]
        /\ messagesContent' = r[3]
  /\ loadedMessages' = DeleteMessages(loadedMessages, conversationId)
  /\ fullyLoaded' = Null

\* a click on a visible item of the conversation list
SelectConversation(conversationId) ==
  /\ ~emptyStateShown
  /\ \E k \in DOMAIN conversationsList : conversationsList[k] = conversationId
  /\ selectedConversationId' = conversationId
  /\ loadConversationMessages(conversationId)
  /\ last' = Ev("selectConversation", conversationId, 0, TRUE, FALSE, FALSE)
  /\ UNCHANGED <<messagesScrollListener, cache>>
  /\ UNCHANGED convVars

\* a click on the retry button that a failed initial load rendered
RetryMessages ==
  /\ messagesContent.kind = "error"
  /\ loadConversationMessages(messagesContent.retry)
  /\ last' = Ev("retryMessages", messagesContent.retry, 0, TRUE, FALSE, FALSE)
  /\ UNCHANGED <<selectedConversationId, messagesScrollListener, cache>>
  /\ UNCHANGED convVars

\* a scroll near the top of #messages-content: this.messagesScrollListener
ScrollMessages ==
  /\ messagesScrollListener # Null
  /\ LET wanted == messagesPagination.hasMore /\ ~messagesPagination.isLoading
         r == IF wanted
              THEN loadMoreMessagesBegin(messagesPagination, msgFetches,
                                         messagesScrollListener, FALSE)
              ELSE <<messagesPagination, msgFetches, messagesContent>>
     IN /\ BagCardinality(r[2]) <= MaxInFlight
        /\ messagesPagination' = r[1]
        /\ msgFetches' = r[2]
        /\ messagesContent' = r[3]
        /\ last' = Ev("scrollMessages", messagesScrollListener,
                      messagesPagination.currentPage, FALSE, FALSE, r[2] = msgFetches)
  /\ UNCHANGED <<selectedConversationId, messagesScrollListener, loadedMessages,
                 cache, fullyLoaded>>
  /\ UNCHANGED convVars

\* a faulty mergeMessages that C10 must tell apart: an older page goes after the cache
mergeMessages_appends(messages, existingMessages, isInitialLoad) ==
  IF isInitialLoad THEN messages ELSE existingMessages \o messages

\* the merge of a returned page into the cached messages of its conversation
mergeMessages(messages, existingMessages, isInitialLoad) ==
  IF isInitialLoad THEN messages ELSE messages \o existingMessages

\* the continuation of loadMoreMessages when cachedFetch resolved with messages
MessagesFetchResolved(f) ==
  LET messages == ServerMessages(f.conversationId, f.page)
      existingMessages ==
        mergeMessages(messages, GetMessages(loadedMessages, f.conversationId),
                      f.isInitialLoad)
  IN /\ messagesPagination' =
          IF ServerPaginated(f.conversationId)
          THEN [messagesPagination EXCEPT
                  !.hasMore = ServerMessagesHasMore(f.conversationId, f.page),
                  !.currentPage = f.page + 1,
                  !.isLoading = FALSE]
          ELSE [messagesPagination EXCEPT
                  !.hasMore = FALSE, !.currentPage = 1, !.isLoading = FALSE]
     /\ loadedMessages' = SetMessages(loadedMessages, f.conversationId, existingMessages)
     /\ messagesContent' = Panel("messages", existingMessages, Null)
     /\ messagesScrollListener' =
          IF f.isInitialLoad THEN f.conversationId ELSE messagesScrollListener
     /\ msgFetches' = SettleFetch(msgFetches, f)
     /\ cache' = CacheSet({MessagesKey(f.conversationId, f.page)})
     /\ fullyLoaded' =
          IF ServerPaginated(f.conversationId) THEN fullyLoaded ELSE f.conversationId
     /\ last' = [Ev("messagesResolved", f.conversationId, f.page, f.isInitialLoad,
                    f.stale, FALSE) EXCEPT !.rendered = TRUE]
     /\ UNCHANGED selectedConversationId
     /\ UNCHANGED convVars

\* the continuation of loadMoreMessages when cachedFetch resolved with no data
\* or with data that holds no messages field
MessagesFetchEmpty(f) ==
  /\ messagesPagination' = [messagesPagination EXCEPT !.isLoading = FALSE]
  /\ messagesContent' =
       IF f.isInitialLoad THEN Panel("empty", <<>>, Null) ELSE messagesContent
  /\ msgFetches' = SettleFetch(msgFetches, f)
  /\ cache' = CacheSet({MessagesKey(f.conversationId, f.page)})
  /\ last' = Ev("messagesEmpty", f.conversationId, f.page, f.isInitialLoad,
                f.stale, FALSE)
  /\ UNCHANGED <<selectedConversationId, messagesScrollListener, loadedMessages,
                 fullyLoaded>>
  /\ UNCHANGED convVars

\* a faulty MessagesFetchRejected that C33 must tell apart: the catch block runs
\* but isLoading is not cleared
MessagesFetchRejected_loading(f) ==
  /\ CanReject(MessagesKey(f.conversationId, f.page))
  /\ messagesContent' =
       IF f.isInitialLoad
       THEN Panel("error", <<>>, f.conversationId)
       ELSE messagesContent
  /\ msgFetches' = SettleFetch(msgFetches, f)
  /\ last' = Ev("messagesRejected", f.conversationId, f.page, f.isInitialLoad,
                f.stale, FALSE)
  /\ UNCHANGED <<selectedConversationId, messagesPagination, messagesScrollListener,
                 loadedMessages, cache, fullyLoaded>>
  /\ UNCHANGED convVars

\* the continuation of loadMoreMessages when cachedFetch rejected
MessagesFetchRejected(f) ==
  /\ CanReject(MessagesKey(f.conversationId, f.page))
  /\ messagesPagination' = [messagesPagination EXCEPT !.isLoading = FALSE]
  /\ messagesContent' =
       IF f.isInitialLoad
       THEN Panel("error", <<>>, f.conversationId)
       ELSE messagesContent
  /\ msgFetches' = SettleFetch(msgFetches, f)
  /\ last' = Ev("messagesRejected", f.conversationId, f.page, f.isInitialLoad,
                f.stale, FALSE)
  /\ UNCHANGED <<selectedConversationId, messagesScrollListener, loadedMessages,
                 cache, fullyLoaded>>
  /\ UNCHANGED convVars

\* a faulty messageExists that C12 must tell apart: nothing counts as a duplicate
messageExists_never(existingMessages, message) == FALSE

\* a faulty messageExists that C13 must tell apart: only the id is compared
messageExists_byId(existingMessages, message) ==
  \E k \in DOMAIN existingMessages : existingMessages[k].id = message.id

\* the duplicate test of handleNewMessage
messageExists(existingMessages, message) ==
  \E k \in DOMAIN existingMessages :
     \/ existingMessages[k].id = message.id
     \/ /\ existingMessages[k].timestamp = message.timestamp
        /\ existingMessages[k].role = message.role

\* a faulty ignoresPush that C14 must tell apart: every push is processed
ignoresPush_never(conversationId) == FALSE

\* handleNewMessage returns at once unless the conversation is the selected one
ignoresPush(conversationId) == selectedConversationId # conversationId

\* a faulty appendMessage that C15 must tell apart: the message is put first
appendMessage_first(existingMessages, message) == <<message>> \o existingMessages

\* [...existingMessages, message]
appendMessage(existingMessages, message) == Append(existingMessages, message)

\* a new_message push: DataService.handleNewMessage drops the cached message pages
\* of the conversation and notifies, which reaches
\* handleStateChange(state, 'new_message') -> handleNewMessage
HandleNewMessage(conversationId, message) ==
  LET existingMessages == GetMessages(loadedMessages, conversationId)
      updatedMessages == appendMessage(existingMessages, message)
      ignored == ignoresPush(conversationId)
      added == ~ignored /\ ~messageExists(existingMessages, message)
  IN /\ loadedMessages' =
          IF added THEN SetMessages(loadedMessages, conversationId, updatedMessages)
          ELSE loadedMessages
     /\ messagesContent' =
          IF added THEN Panel("messages", updatedMessages, Null) ELSE messagesContent
     /\ cache' = clearCacheEntry(conversationId)
     /\ last' = [Ev("handleNewMessage", conversationId, NoPage, FALSE, FALSE, ~added)
                   EXCEPT !.message = message, !.rendered = added, !.scrolled = added]
     /\ UNCHANGED <<selectedConversationId, messagesPagination, messagesScrollListener,
                    msgFetches, fullyLoaded>>
     /\ UNCHANGED convVars

----------------------------------------------------------------------------
(* DataService: push channel, polling timer and timed cache *)

\* pending startup timeouts
MaxTimeouts == 2

\* the clock of the push-event specification stops here (ms)
MaxClock == 30000

\* this.refreshInterval when no timer is named by it
NoTimer == 0

\* startPeriodicRefresh(interval = 30000) and startPeriodicRefresh(5000)
DefaultInterval == 30000
FallbackInterval == 5000

\* this.realTimeEnabled ? 30000 : 5000
RealTimeCacheDuration == 30000
PollingCacheDuration == 5000

\* the periods callers hand to startPeriodicRefresh
IntervalInputs == {DefaultInterval, FallbackInterval}

\* Date.now() when the list requests are made, and the times of the earlier
\* calls whose responses may be cached: 30000, 27500, 5000 and 2500 ms before
CallTime == 30000
CachedAt == {0, 2500, 25000, 27500}

\* the time between two segments of the push-event specification (ms)
ClockStep == RealTimeCacheDuration \div 3

\* the endpoints of getConversationsPaginated(0, 10) and getConversationStates
PaginatedEndpoint == "/api/conversations?page=0&limit=10"
StatesEndpoint == "/api/conversation-state"

DataEv(op) ==
  [op |-> op, interval |-> NoTimer, hadTimer |-> FALSE, notified |-> FALSE,
   realTime |-> FALSE, endpoint |-> Null, hit |-> FALSE, contacted |-> FALSE,
   outdated |-> FALSE]

TimerState(handle, alive) == [refreshInterval |-> handle, timers |-> alive]

Timer == TimerState(refreshInterval, timers)

SetTimer(t) ==
  /\ refreshInterval' = t.refreshInterval
  /\ timers' = t.timers

\* a faulty clearInterval that C36 must tell apart: the timer is left alive
clearInterval_keeps(t) == t.timers

\* clearInterval(this.refreshInterval)
clearInterval(t) ==
  IF t.refreshInterval = NoTimer THEN t.timers
  ELSE t.timers (-) SetToBag({t.refreshInterval})

\* a faulty startPeriodicRefresh that C16 must tell apart: it does not look at
\* realTimeEnabled
startPeriodicRefresh_unguarded(t, enabled, interval) ==
  TimerState(interval, clearInterval(t) (+) SetToBag({interval}))

startPeriodicRefresh(t, enabled, interval) ==
  IF enabled THEN t
  ELSE TimerState(interval, clearInterval(t) (+) SetToBag({interval}))

startFallbackPolling(t, enabled) ==
  IF t.refreshInterval = NoTimer THEN startPeriodicRefresh(t, enabled, FallbackInterval)
  ELSE t

stopPeriodicRefresh(t) ==
  IF t.refreshInterval # NoTimer THEN TimerState(NoTimer, clearInterval(t)) ELSE t

stopFallbackPolling(t) ==
  IF t.refreshInterval # NoTimer THEN stopPeriodicRefresh(t) ELSE t

\* the state new DataService(webSocketService) leaves; given is FALSE for null
DataConstructed(given) ==
  /\ webSocketService = given
  /\ realTimeEnabled = FALSE
  /\ listening = given
  /\ refreshInterval = NoTimer
  /\ timers = EmptyBag
  /\ timeouts = (IF given THEN 1 ELSE 0)
  /\ pollFetches = 0
  /\ now = 0
  /\ cacheEntries = [k \in {} |-> 0]
  /\ dataFetches = EmptyBag
  /\ outdated = {}
  /\ dataLast = DataEv("constructor")

\* setWebSocketService, with the setupWebSocketIntegration it calls
SetWebSocketService(given) ==
  /\ given => timeouts < MaxTimeouts
  /\ webSocketService' = given
  /\ IF given
     THEN /\ listening' = TRUE
          /\ timeouts' = timeouts + 1
          /\ UNCHANGED <<refreshInterval, timers>>
     ELSE /\ SetTimer(startFallbackPolling(Timer, realTimeEnabled))
          /\ UNCHANGED <<listening, timeouts>>
  /\ dataLast' = DataEv("setWebSocketService")
  /\ UNCHANGED <<realTimeEnabled, pollFetches, cacheVars, pageVars>>

\* the 'connected' handler
Connected ==
  /\ listening
  /\ realTimeEnabled' = TRUE
  /\ SetTimer(stopFallbackPolling(Timer))
  /\ dataLast' = [DataEv("connected") EXCEPT !.hadTimer = timers # EmptyBag,
                                             !.interval = refreshInterval]
  /\ UNCHANGED <<webSocketService, listening, timeouts, pollFetches, cacheVars, pageVars>>

\* the 'disconnected' handler
Disconnected ==
  /\ listening
  /\ realTimeEnabled' = FALSE
  /\ SetTimer(startFallbackPolling(Timer, FALSE))
  /\ dataLast' = [DataEv("disconnected") EXCEPT !.hadTimer = timers # EmptyBag,
                                                !.interval = refreshInterval]
  /\ UNCHANGED <<webSocketService, listening, timeouts, pollFetches, cacheVars, pageVars>>

\* the timeout that setupWebSocketIntegration sets fires
StartupTimeout ==
  /\ timeouts > 0
  /\ timeouts' = timeouts - 1
  /\ SetTimer(IF ~realTimeEnabled THEN startFallbackPolling(Timer, realTimeEnabled)
              ELSE Timer)
  /\ dataLast' = [DataEv("startupTimeout") EXCEPT !.hadTimer = timers # EmptyBag]
  /\ UNCHANGED <<webSocketService, realTimeEnabled, listening, pollFetches, cacheVars,
                 pageVars>>

\* a caller starts the periodic refresh
StartPeriodicRefresh(interval) ==
  /\ SetTimer(startPeriodicRefresh(Timer, realTimeEnabled, interval))
  /\ dataLast' = [DataEv("startPeriodicRefresh") EXCEPT !.interval = interval,
                                                        !.hadTimer = timers # EmptyBag]
  /\ UNCHANGED <<webSocketService, realTimeEnabled, listening, timeouts, pollFetches,
                 cacheVars, pageVars>>

\* a caller starts the fallback polling
StartFallbackPolling ==
  /\ SetTimer(startFallbackPolling(Timer, realTimeEnabled))
  /\ dataLast' = [DataEv("startFallbackPolling") EXCEPT !.hadTimer = timers # EmptyBag]
  /\ UNCHANGED <<webSocketService, realTimeEnabled, listening, timeouts, pollFetches,
                 cacheVars, pageVars>>

\* a caller stops the periodic refresh
StopPeriodicRefresh ==
  /\ SetTimer(stopPeriodicRefresh(Timer))
  /\ dataLast' = [DataEv("stopPeriodicRefresh") EXCEPT !.hadTimer = timers # EmptyBag]
  /\ UNCHANGED <<webSocketService, realTimeEnabled, listening, timeouts, pollFetches,
                 cacheVars, pageVars>>

\* a caller stops the fallback polling
StopFallbackPolling ==
  /\ SetTimer(stopFallbackPolling(Timer))
  /\ dataLast' = [DataEv("stopFallbackPolling") EXCEPT !.hadTimer = timers # EmptyBag]
  /\ UNCHANGED <<webSocketService, realTimeEnabled, listening, timeouts, pollFetches,
                 cacheVars, pageVars>>

\* a live timer fires: the callback starts its two requests unless realTimeEnabled
PollTick ==
  /\ timers # EmptyBag
  /\ realTimeEnabled \/ pollFetches < MaxInFlight
  /\ pollFetches' = (IF ~realTimeEnabled THEN pollFetches + 1 ELSE pollFetches)
  /\ dataLast' = [DataEv("pollTick") EXCEPT !.contacted = ~realTimeEnabled]
  /\ UNCHANGED <<webSocketService, realTimeEnabled, listening, refreshInterval, timers,
                 timeouts, cacheVars, pageVars>>

\* the Promise.all of a tick resolves: 'conversations' and 'states' are notified
PollResolved ==
  /\ pollFetches > 0
  /\ pollFetches' = pollFetches - 1
  /\ dataLast' = [DataEv("pollResolved") EXCEPT !.notified = TRUE,
                                                !.realTime = realTimeEnabled]
  /\ UNCHANGED <<webSocketService, realTimeEnabled, listening, refreshInterval, timers,
                 timeouts, cacheVars, pageVars>>

\* the Promise.all of a tick rejects: the error is logged
PollRejected ==
  /\ pollFetches > 0
  /\ pollFetches' = pollFetches - 1
  /\ dataLast' = DataEv("pollRejected")
  /\ UNCHANGED <<webSocketService, realTimeEnabled, listening, refreshInterval, timers,
                 timeouts, cacheVars, pageVars>>

\* a faulty cacheDuration that C18 must tell apart: the mode is not looked at
cacheDuration_default(enabled) == RealTimeCacheDuration

\* const cacheDuration = this.realTimeEnabled ? 30000 : 5000
cacheDuration(enabled) ==
  IF enabled THEN RealTimeCacheDuration ELSE PollingCacheDuration

\* `${endpoint}_${JSON.stringify(options)}` with options = { cacheDuration }
cacheKey(endpoint, duration) == [endpoint |-> endpoint, cacheDuration |-> duration]

\* the keys the two list requests use
CacheKeys ==
  { cacheKey(endpoint, duration) :
      endpoint \in {PaginatedEndpoint, StatesEndpoint},
      duration \in {RealTimeCacheDuration, PollingCacheDuration} }

\* cachedFetch answers from this.cache
cacheHit(entries, key, time, duration) ==
  /\ key \in DOMAIN entries
  /\ time - entries[key] < duration

\* cachedFetch(endpoint, { cacheDuration }) up to its first await
cachedFetch(op, endpoint) ==
  LET duration == cacheDuration(realTimeEnabled)
      key == cacheKey(endpoint, duration)
      hit == cacheHit(cacheEntries, key, now, duration)
  IN /\ hit \/ BagCardinality(dataFetches) < MaxInFlight
     /\ dataFetches' =
          IF hit THEN dataFetches
          ELSE dataFetches (+) SetToBag({[key |-> key, now |-> now, stale |-> FALSE]})
     /\ dataLast' = [DataEv(op) EXCEPT !.endpoint = endpoint, !.hit = hit,
                                       !.contacted = ~hit, !.realTime = realTimeEnabled,
                                       !.outdated = hit /\ key \in outdated]
     /\ UNCHANGED <<now, cacheEntries, outdated, timerVars, pageVars>>

GetConversationsPaginated == cachedFetch("getConversationsPaginated", PaginatedEndpoint)

GetConversationStates == cachedFetch("getConversationStates", StatesEndpoint)

\* the server answers: the response is cached under the time of the call
DataFetchResolved(f) ==
  /\ dataFetches' = dataFetches (-) SetToBag({f})
  /\ cacheEntries' = (f.key :> f.now) @@ cacheEntries
  /\ outdated' = (IF f.stale THEN outdated \cup {f.key} ELSE outdated \ {f.key})
  /\ dataLast' = [DataEv("dataFetchResolved") EXCEPT !.endpoint = f.key.endpoint,
                                                     !.outdated = f.stale]
  /\ UNCHANGED <<now, timerVars, pageVars>>

\* a faulty DataFetchRejected that C35 must tell apart: a cached response is
\* returned only while it is younger than the cache duration
DataFetchRejected_fresh(f) ==
  /\ dataFetches' = dataFetches (-) SetToBag({f})
  /\ dataLast' = [DataEv("dataFetchRejected") EXCEPT
                    !.endpoint = f.key.endpoint,
                    !.hit = cacheHit(cacheEntries, f.key, now, f.key.cacheDuration),
                    !.outdated = f.key \in DOMAIN cacheEntries /\ f.key \in outdated]
  /\ UNCHANGED <<now, cacheEntries, outdated, timerVars, pageVars>>

\* the server is not available: the cached data, if any, is returned, else the
\* error is thrown
DataFetchRejected(f) ==
  /\ dataFetches' = dataFetches (-) SetToBag({f})
  /\ dataLast' = [DataEv("dataFetchRejected") EXCEPT
                    !.endpoint = f.key.endpoint,
                    !.hit = f.key \in DOMAIN cacheEntries,
                    !.outdated = f.key \in DOMAIN cacheEntries /\ f.key \in outdated]
  /\ UNCHANGED <<now, cacheEntries, outdated, timerVars, pageVars>>

\* the text of an endpoint, cut where the endpoints used here part ways
DataEndpoint == "/api/data"

EndpointText(endpoint) ==
  CASE endpoint = StatesEndpoint -> <<"/api/", "conversation", "-state">>
    [] endpoint = PaginatedEndpoint -> <<"/api/", "conversation", "s?page=0&limit=10">>
    [] endpoint = DataEndpoint -> <<"/api/", "data">>

\* key.startsWith(endpoint); the key is the endpoint followed by '_' and the options
startsWith(key, endpoint) ==
  LET text == EndpointText(key.endpoint) \o <<"_">>
      start == EndpointText(endpoint)
  IN /\ Len(start) <= Len(text)
     /\ SubSeq(text, 1, Len(start)) = start

\* clearCacheEntry(endpoint): the entries that are left
clearCacheEntryOf(entries, endpoint) ==
  LET kept == { key \in DOMAIN entries : ~startsWith(key, endpoint) }
  IN [key \in kept |-> entries[key]]

\* a push event: the entries of the endpoints are dropped and the listeners told
pushEvent(op, endpoints) ==
  /\ listening
  /\ cacheEntries' = LET cleared[k \in 0..Len(endpoints)] ==
                           IF k = 0 THEN cacheEntries
                           ELSE clearCacheEntryOf(cleared[k - 1], endpoints[k])
                     IN cleared[Len(endpoints)]
  /\ dataFetches' = MarkStale(dataFetches)
  /\ outdated' = outdated \cap DOMAIN cacheEntries'
  /\ dataLast' = [DataEv(op) EXCEPT !.notified = TRUE, !.realTime = realTimeEnabled]
  /\ UNCHANGED <<now, timerVars, pageVars>>

\* handleRealTimeDataRefresh(data)
HandleRealTimeDataRefresh ==
  pushEvent("handleRealTimeDataRefresh", <<DataEndpoint, StatesEndpoint>>)

\* handleRealTimeStateChange(data)
HandleRealTimeStateChange ==
  pushEvent("handleRealTimeStateChange", <<StatesEndpoint>>)

\* Date.now() moves on between two segments
ClockTick ==
  /\ now + ClockStep <= MaxClock
  /\ now' = now + ClockStep
  /\ UNCHANGED <<cacheEntries, dataFetches, outdated, dataLast, timerVars, pageVars>>

----------------------------------------------------------------------------
(* The AgentsPage variant of src/unnamed/part_000: one request per conversation *)
(* for all its messages, and a status filter on the state itself            *)

\* the values of #status-filter in the variant
VariantStatusInputs == {"all", "active", "idle", "waiting", "completed"}

\* filterConversations of the variant
VariantFilterConversations(conversations, states) ==
  LET byStatus(id) == StateOf(states, id) = filters.status
      timeRange == getTimeRangeMs(filters.timeRange)
      cutoff == Now - timeRange
      byTime(id) == ConversationInfo(id).lastModified >= cutoff
      searchLower == toLowerCase(filters.search)
      bySearch(id) ==
        \/ includes(toLowerCase(ConversationInfo(id).title), searchLower)
        \/ includes(toLowerCase(ConversationInfo(id).project), searchLower)
        \/ includes(toLowerCase(ConversationInfo(id).lastMessage), searchLower)
      f1 == IF filters.status # "all" THEN SelectSeq(conversations, byStatus)
            ELSE conversations
      f2 == IF timeRange > 0 THEN SelectSeq(f1, byTime) ELSE f1
      f3 == IF filters.search # <<>> THEN SelectSeq(f2, bySearch) ELSE f2
  IN f3

\* renderConversationsList of the variant: the new <<conversationsList,
\* sidebarCount, emptyStateShown, conversationBadges>>
VariantRenderConversationsList(conversations, states) ==
  LET filtered == VariantFilterConversations(conversations, states)
  IN IF Len(filtered) = 0
     THEN <<conversationsList, 0, TRUE, conversationBadges>>
     ELSE <<filtered, Len(filtered), FALSE,
            [k \in DOMAIN filtered |-> StateOf(states, filtered[k])]>>

\* handleStateChange(state, 'update_conversation_states') of the variant ->
\* updateConversationStates(statesData)
VariantHandleStateChange(statesData) ==
  LET activeStates == storedActiveStates(statesData)
      dom == VariantRenderConversationsList(loadedConversations, activeStates)
  IN /\ conversationStates' = statesData
     /\ conversationsList' = dom[1]
     /\ sidebarCount' = dom[2]
     /\ emptyStateShown' = dom[3]
     /\ conversationBadges' = dom[4]
     /\ last' = [Ev("updateConversationStates", Null, NoPage, FALSE, FALSE, FALSE)
                   EXCEPT !.payload = statesData]
     /\ UNCHANGED <<pagination, loadedConversations, filters, convFetches, sequential,
                    loadedMessages, cache>>
     /\ UNCHANGED msgVars

\* the response to GET /api/conversations/c/messages: all messages, oldest first
VariantServerMessages(c) ==
  LET pages == MessagePages(c)
      all[k \in 0 .. Len(pages)] ==
        IF k = 0 THEN <<>> ELSE pages[k] \o all[k - 1]
  IN all[Len(pages)]

\* selectConversation(conversationId) of the variant up to the await of
\* loadConversationMessages: cached messages are rendered, else a fetch is issued
VariantSelectConversation(conversationId) ==
  /\ ~emptyStateShown
  /\ \E k \in DOMAIN conversationsList : conversationsList[k] = conversationId
  /\ selectedConversationId' = conversationId
  /\ IF conversationId \in DOMAIN loadedMessages
     THEN /\ messagesContent' = Panel("messages", loadedMessages[conversationId], Null)
          /\ msgFetches' = msgFetches
     ELSE /\ BagCardinality(msgFetches) < MaxInFlight
          /\ messagesContent' = Panel("loading", <<>>, Null)
          /\ msgFetches' = AddFetch(msgFetches,
                                    [conversationId |-> conversationId, page |-> 0,
                                     isInitialLoad |-> TRUE, stale |-> FALSE])
  /\ last' = [Ev("selectConversation", conversationId, 0, TRUE, FALSE,
                 conversationId \in DOMAIN loadedMessages)
                EXCEPT !.rendered = conversationId \in DOMAIN loadedMessages]
  /\ UNCHANGED <<messagesPagination, messagesScrollListener, fullyLoaded, loadedMessages,
                 cache>>
  /\ UNCHANGED convVars

\* the continuation of loadConversationMessages of the variant when cachedFetch
\* resolved with messages
VariantMessagesFetchResolved(f) ==
  LET messages == VariantServerMessages(f.conversationId)
  IN /\ Len(messages) > 0
     /\ loadedMessages' = SetMessages(loadedMessages, f.conversationId, messages)
     /\ messagesContent' = Panel("messages", messages, Null)
     /\ msgFetches' = SettleFetch(msgFetches, f)
     /\ cache' = CacheSet({MessagesKey(f.conversationId, 0)})
     /\ last' = [Ev("messagesResolved", f.conversationId, 0, TRUE, f.stale, FALSE)
                   EXCEPT !.rendered = TRUE]
     /\ UNCHANGED <<selectedConversationId, messagesPagination, messagesScrollListener,
                    fullyLoaded>>
     /\ UNCHANGED convVars

\* the continuation when cachedFetch rejected: the error panel with its retry button
VariantMessagesFetchRejected(f) ==
  /\ CanReject(MessagesKey(f.conversationId, 0))
  /\ messagesContent' = Panel("error", <<>>, f.conversationId)
  /\ msgFetches' = SettleFetch(msgFetches, f)
  /\ last' = Ev("messagesRejected", f.conversationId, 0, TRUE, f.stale, FALSE)
  /\ UNCHANGED <<selectedConversationId, messagesPagination, messagesScrollListener,
                 fullyLoaded, loadedMessages, cache>>
  /\ UNCHANGED convVars

----------------------------------------------------------------------------
(* Specifications *)

\* the state the constructor of AgentsPage leaves
PageConstructed ==
  /\ selectedConversationId = Null
  /\ pagination = ResetPagination
  /\ messagesPagination = ResetMessagesPagination(Null)
  /\ loadedConversations = <<>>
  /\ loadedMessages = EmptyMap
  /\ filters = [status |-> "all", timeRange |-> "7d", search |-> <<>>]
  /\ conversationStates = EmptyMap
  /\ conversationsList = <<>>
  /\ sidebarCount = 0
  /\ conversationBadges = <<>>
  /\ emptyStateShown = FALSE
  /\ messagesContent = Panel("none", <<>>, Null)
  /\ messagesScrollListener = Null
  /\ convFetches = EmptyBag
  /\ msgFetches = EmptyBag
  /\ cache = {}
  /\ sequential = TRUE
  /\ fullyLoaded = Null
  /\ last = Ev("constructor", Null, NoPage, FALSE, FALSE, FALSE)

\* the page on a DataService that was given no push channel
Init ==
  /\ PageConstructed
  /\ DataConstructed(FALSE)

\* both conversation pages are loaded and shown unfiltered, nothing is pending
ListShown ==
  /\ pagination = [currentPage |-> 2, limit |-> Limit, hasMore |-> FALSE,
                   isLoading |-> FALSE]
  /\ loadedConversations = <<"A", "B", "C">>
  /\ filters = [status |-> "all", timeRange |-> "7d", search |-> <<>>]
  /\ conversationStates = ServerActiveStates
  /\ conversationsList = <<"A", "B", "C">>
  /\ sidebarCount = 1
  /\ ~emptyStateShown
  /\ convFetches = EmptyBag
  /\ sequential

\* no conversation has been opened yet
ListPhase == selectedConversationId = Null

\* The user works on the conversation list while no conversation is open, and
\* opens conversations once the whole list is shown.
Next ==
  \/ ListPhase /\ LoadConversationsData /\ UNCHANGED dataVars
  \/ ListPhase /\ \E ok \in BOOLEAN : RefreshConversations(ok) /\ UNCHANGED dataVars
  \/ ListPhase /\ LoadMoreConversations /\ UNCHANGED dataVars
  \/ ListPhase /\ \E value \in StatusInputs : UpdateFilter("status", value) /\ UNCHANGED dataVars
  \/ ListPhase /\ \E value \in TimeRangeInputs : UpdateFilter("timeRange", value) /\ UNCHANGED dataVars
  \/ ListPhase /\ \E value \in SearchInputs : UpdateFilter("search", value) /\ UNCHANGED dataVars
  \/ ListPhase /\ ClearAllFilters /\ UNCHANGED dataVars
  \/ ListPhase /\ \E f \in BagToSet(convFetches) : ConversationsFetchResolved(f) /\ UNCHANGED dataVars
  \/ ListPhase /\ \E f \in BagToSet(convFetches) : ConversationsFetchRejected(f) /\ UNCHANGED dataVars
  \/ ListShown /\ \E c \in Convs : SelectConversation(c) /\ UNCHANGED dataVars
  \/ ListShown /\ RetryMessages /\ UNCHANGED dataVars
  \/ ListShown /\ ScrollMessages /\ UNCHANGED dataVars
  \/ ListShown /\ \E f \in BagToSet(msgFetches) : MessagesFetchResolved(f) /\ UNCHANGED dataVars
  \/ ListShown /\ \E f \in BagToSet(msgFetches) : MessagesFetchEmpty(f) /\ UNCHANGED dataVars
  \/ ListShown /\ \E f \in BagToSet(msgFetches) : MessagesFetchRejected(f) /\ UNCHANGED dataVars
  \/ ListShown /\ \E c \in PushConvs, m \in PushMessages : HandleNewMessage(c, m) /\ UNCHANGED dataVars

Spec == Init /\ [][Next]_vars

\* The push channel at work on an opened conversation: the state in which
\* initialize() and one scroll have loaded and shown both conversation pages
InitPush ==
  /\ pagination = [currentPage |-> 2, limit |-> Limit, hasMore |-> FALSE,
                   isLoading |-> FALSE]
  /\ loadedConversations = <<"A", "B", "C">>
  /\ filters = [status |-> "all", timeRange |-> "7d", search |-> <<>>]
  /\ conversationStates = ServerActiveStates
  /\ conversationsList = <<"A", "B", "C">>
  /\ sidebarCount = 1
  /\ conversationBadges = <<"Claude Code working...", "unknown", "unknown">>
  /\ emptyStateShown = FALSE
  /\ convFetches = EmptyBag
  /\ sequential = TRUE
  /\ selectedConversationId = Null
  /\ messagesPagination = ResetMessagesPagination(Null)
  /\ loadedMessages = EmptyMap
  /\ messagesContent = Panel("none", <<>>, Null)
  /\ messagesScrollListener = Null
  /\ msgFetches = EmptyBag
  /\ cache = {ConversationsKey(0), ConversationsKey(1), StatesKey}
  /\ fullyLoaded = Null
  /\ last = Ev("conversationsResolved", Null, 1, FALSE, FALSE, FALSE)
  /\ DataConstructed(FALSE)

NextPush ==
  \/ \E c \in Convs : SelectConversation(c) /\ UNCHANGED dataVars
  \/ ScrollMessages /\ UNCHANGED dataVars
  \/ \E f \in BagToSet(msgFetches) : MessagesFetchResolved(f) /\ UNCHANGED dataVars
  \/ \E c \in Convs, m \in DedupMessages : HandleNewMessage(c, m) /\ UNCHANGED dataVars

SpecPush == InitPush /\ [][NextPush]_vars

\* Both cursors at work: the first conversation page is loaded and shown, and
\* conversations are opened and scrolled while the list is scrolled
InitCursors ==
  /\ pagination = [currentPage |-> 1, limit |-> Limit, hasMore |-> TRUE,
                   isLoading |-> FALSE]
  /\ loadedConversations = <<"A", "B">>
  /\ filters = [status |-> "all", timeRange |-> "7d", search |-> <<>>]
  /\ conversationStates = ServerActiveStates
  /\ conversationsList = <<"A", "B">>
  /\ sidebarCount = 2
  /\ conversationBadges = <<"Claude Code working...", "unknown">>
  /\ emptyStateShown = FALSE
  /\ convFetches = EmptyBag
  /\ sequential = TRUE
  /\ selectedConversationId = Null
  /\ messagesPagination = ResetMessagesPagination(Null)
  /\ loadedMessages = EmptyMap
  /\ messagesContent = Panel("none", <<>>, Null)
  /\ messagesScrollListener = Null
  /\ msgFetches = EmptyBag
  /\ cache = {ConversationsKey(0), StatesKey}
  /\ fullyLoaded = Null
  /\ last = Ev("conversationsResolved", Null, 0, TRUE, FALSE, FALSE)
  /\ DataConstructed(FALSE)

NextCursors ==
  \/ LoadMoreConversations /\ UNCHANGED dataVars
  \/ (\E f \in BagToSet(convFetches) : ConversationsFetchResolved(f)) /\ UNCHANGED dataVars
  \/ (\E f \in BagToSet(convFetches) : ConversationsFetchRejected(f)) /\ UNCHANGED dataVars
  \/ (\E c \in Convs : SelectConversation(c)) /\ UNCHANGED dataVars
  \/ ScrollMessages /\ UNCHANGED dataVars
  \/ (\E f \in BagToSet(msgFetches) : MessagesFetchResolved(f)) /\ UNCHANGED dataVars
  \/ (\E f \in BagToSet(msgFetches) : MessagesFetchRejected(f)) /\ UNCHANGED dataVars
  \/ HandleConversationStateChange /\ UNCHANGED dataVars

SpecCursors == InitCursors /\ [][NextCursors]_vars

\* The loads of both cursors with every way their fetches settle: the list is
\* scrolled to its end while no conversation is open, conversations are opened
\* once the whole list is loaded, and a fetch that was issued settles at some time
ListLoaded == convFetches = EmptyBag /\ ~pagination.hasMore

NextLoads ==
  \/ ListPhase /\ LoadMoreConversations /\ UNCHANGED dataVars
  \/ ListPhase /\ (\E f \in BagToSet(convFetches) : ConversationsFetchResolved(f))
       /\ UNCHANGED dataVars
  \/ ListPhase /\ (\E f \in BagToSet(convFetches) : ConversationsFetchRejected(f))
       /\ UNCHANGED dataVars
  \/ ListLoaded /\ (\E c \in Convs : SelectConversation(c)) /\ UNCHANGED dataVars
  \/ ListLoaded /\ ScrollMessages /\ UNCHANGED dataVars
  \/ ListLoaded /\ (\E f \in BagToSet(msgFetches) : MessagesFetchResolved(f))
       /\ UNCHANGED dataVars
  \/ ListLoaded /\ (\E f \in BagToSet(msgFetches) : MessagesFetchEmpty(f))
       /\ UNCHANGED dataVars
  \/ ListLoaded /\ (\E f \in BagToSet(msgFetches) : MessagesFetchRejected(f))
       /\ UNCHANGED dataVars

ConversationsFetchSettles ==
  /\ ListPhase
  /\ \E f \in BagToSet(convFetches) :
        ConversationsFetchResolved(f) \/ ConversationsFetchRejected(f)
  /\ UNCHANGED dataVars

MessagesFetchSettles ==
  /\ ListLoaded
  /\ \E f \in BagToSet(msgFetches) :
        MessagesFetchResolved(f) \/ MessagesFetchEmpty(f) \/ MessagesFetchRejected(f)
  /\ UNCHANGED dataVars

SpecLoads ==
  /\ InitCursors
  /\ [][NextLoads]_vars
  /\ WF_vars(ConversationsFetchSettles)
  /\ WF_vars(MessagesFetchSettles)

\* A conversation stays open while the time range is changed, which reloads the
\* list, and messages are pushed and older pages are scrolled in
NextReload ==
  \/ UpdateFilter("timeRange", "30d") /\ UNCHANGED dataVars
  \/ (\E f \in BagToSet(convFetches) : ConversationsFetchResolved(f)) /\ UNCHANGED dataVars
  \/ SelectConversation("A") /\ UNCHANGED dataVars
  \/ ScrollMessages /\ UNCHANGED dataVars
  \/ (\E f \in BagToSet(msgFetches) : MessagesFetchResolved(f)) /\ UNCHANGED dataVars
  \/ (\E m \in PushMessages : HandleNewMessage("A", m)) /\ UNCHANGED dataVars

SpecReload == InitPush /\ [][NextReload]_vars

\* The filters at work: FilterList was loaded as one page under some status,
\* time-range and search filter before any state was known, and state mappings
\* arrive
InitFilter ==
  /\ pagination = [currentPage |-> 1, limit |-> Limit, hasMore |-> FALSE,
                   isLoading |-> FALSE]
  /\ loadedConversations = FilterList
  /\ filters \in [status : StatusInputs, timeRange : FilterTimeRanges, search : FilterSearches]
  /\ conversationStates = EmptyMap
  /\ conversationsList = filterConversations(FilterList, EmptyMap)
  /\ sidebarCount = Len(filterConversations(FilterList, EmptyMap))
  /\ conversationBadges =
       [k \in DOMAIN filterConversations(FilterList, EmptyMap) |-> "unknown"]
  /\ emptyStateShown = (Len(filterConversations(FilterList, EmptyMap)) = 0)
  /\ convFetches = EmptyBag
  /\ sequential = TRUE
  /\ selectedConversationId = Null
  /\ messagesPagination = ResetMessagesPagination(Null)
  /\ loadedMessages = EmptyMap
  /\ messagesContent = Panel("none", <<>>, Null)
  /\ messagesScrollListener = Null
  /\ msgFetches = EmptyBag
  /\ cache = {ConversationsKey(0), StatesKey}
  /\ fullyLoaded = Null
  /\ last = Ev("conversationsResolved", Null, 0, TRUE, FALSE, FALSE)
  /\ DataConstructed(FALSE)

NextFilter ==
  \/ (\E carried \in StatePayloads(StateMappings) :
        HandleStateChange(carried)) /\ UNCHANGED dataVars

SpecFilter == InitFilter /\ [][NextFilter]_vars

\* DataService with or without a push channel, its callers and its timers
InitData ==
  /\ PageConstructed
  /\ \E given \in BOOLEAN : DataConstructed(given)

NextData ==
  \/ \E given \in BOOLEAN : SetWebSocketService(given)
  \/ Connected
  \/ Disconnected
  \/ StartupTimeout
  \/ \E interval \in IntervalInputs : StartPeriodicRefresh(interval)
  \/ StartFallbackPolling
  \/ StopPeriodicRefresh
  \/ StopFallbackPolling
  \/ PollTick
  \/ PollResolved
  \/ PollRejected

SpecData == InitData /\ [][NextData]_vars

\* DataService with a push channel answering the list requests at CallTime:
\* earlier calls in either mode have left their responses in the cache
InitCache ==
  /\ PageConstructed
  /\ webSocketService = TRUE
  /\ realTimeEnabled = FALSE
  /\ listening = TRUE
  /\ refreshInterval = NoTimer
  /\ timers = EmptyBag
  /\ timeouts = 1
  /\ pollFetches = 0
  /\ now = CallTime
  /\ cacheEntries \in UNION { [keys -> CachedAt] : keys \in SUBSET CacheKeys }
  /\ dataFetches = EmptyBag
  /\ outdated = {}
  /\ dataLast = DataEv("constructor")

NextCache ==
  \/ Connected
  \/ Disconnected
  \/ GetConversationsPaginated
  \/ GetConversationStates
  \/ \E f \in BagToSet(dataFetches) : DataFetchResolved(f)
  \/ \E f \in BagToSet(dataFetches) : DataFetchRejected(f)

SpecCache == InitCache /\ [][NextCache]_vars

\* DataService with the push channel connected: state requests, the push
\* events that drop their cache entries, and the clock
InitEvents ==
  /\ PageConstructed
  /\ webSocketService = TRUE
  /\ realTimeEnabled = TRUE
  /\ listening = TRUE
  /\ refreshInterval = NoTimer
  /\ timers = EmptyBag
  /\ timeouts = 0
  /\ pollFetches = 0
  /\ now = 0
  /\ cacheEntries = [k \in {} |-> 0]
  /\ dataFetches = EmptyBag
  /\ outdated = {}
  /\ dataLast = DataEv("connected")

NextEvents ==
  \/ GetConversationStates
  \/ \E f \in BagToSet(dataFetches) : DataFetchResolved(f)
  \/ \E f \in BagToSet(dataFetches) : DataFetchRejected(f)
  \/ HandleRealTimeStateChange
  \/ HandleRealTimeDataRefresh
  \/ ClockTick

SpecEvents == InitEvents /\ [][NextEvents]_vars

\* The variant of src/unnamed/part_000 with FilterList loaded as one page under
\* some status filter before any state was known: state mappings arrive and
\* conversations are opened
InitVariant ==
  /\ pagination = [currentPage |-> 1, limit |-> Limit, hasMore |-> FALSE,
                   isLoading |-> FALSE]
  /\ loadedConversations = FilterList
  /\ filters \in [status : VariantStatusInputs, timeRange : {"7d"}, search : {<<>>}]
  /\ conversationStates = EmptyMap
  /\ conversationsList = VariantFilterConversations(FilterList, EmptyMap)
  /\ sidebarCount = Len(VariantFilterConversations(FilterList, EmptyMap))
  /\ conversationBadges =
       [k \in DOMAIN VariantFilterConversations(FilterList, EmptyMap) |-> "unknown"]
  /\ emptyStateShown = (Len(VariantFilterConversations(FilterList, EmptyMap)) = 0)
  /\ convFetches = EmptyBag
  /\ sequential = TRUE
  /\ selectedConversationId = Null
  /\ messagesPagination = ResetMessagesPagination(Null)
  /\ loadedMessages = EmptyMap
  /\ messagesContent = Panel("none", <<>>, Null)
  /\ messagesScrollListener = Null
  /\ msgFetches = EmptyBag
  /\ cache = {ConversationsKey(0), StatesKey}
  /\ fullyLoaded = Null
  /\ last = Ev("conversationsResolved", Null, 0, TRUE, FALSE, FALSE)
  /\ DataConstructed(FALSE)

NextVariant ==
  \/ (\E statesData \in StatePayloads(StateMappings) :
        VariantHandleStateChange(statesData)) /\ UNCHANGED dataVars
  \/ (\E c \in Convs : VariantSelectConversation(c)) /\ UNCHANGED dataVars
  \/ (\E f \in BagToSet(msgFetches) : VariantMessagesFetchResolved(f)) /\ UNCHANGED dataVars
  \/ (\E f \in BagToSet(msgFetches) : VariantMessagesFetchRejected(f)) /\ UNCHANGED dataVars

SpecVariant == InitVariant /\ [][NextVariant]_vars

----------------------------------------------------------------------------
(* Claims *)

Range(seq) == {seq[k] : k \in DOMAIN seq}

InFlight(fetches) == BagCardinality(fetches)

\* C1: when the fetch of a conversation resolves after selectConversation made
\* another conversation the selected one, its result is discarded: it is neither
\* written into loadedMessages nor rendered into the message panel.
C1_StaleResultDiscarded ==
  [][ ( /\ last'.op = "messagesResolved"
        /\ last'.stale
        /\ last'.conv # selectedConversationId )
      => ( /\ loadedMessages' = loadedMessages
           /\ messagesContent' = messagesContent ) ]_vars

\* C2: a pushed message that handleNewMessage appended to the cache of a
\* conversation while a page fetch for that conversation was in flight is still in
\* that cache once the fetch has resolved and its page is merged.
C2_PushSurvivesFetch ==
  [][ last'.op = "messagesResolved"
      => \A m \in PushMessages :
            m \in Range(GetMessages(loadedMessages, last'.conv))
            => m \in Range(GetMessages(loadedMessages', last'.conv)) ]_vars

\* C3: at most one message-page fetch is in flight at any time.
C3_OneMessageFetchInFlight == InFlight(msgFetches) <= 1

\* C4: at most one conversation-page fetch is in flight at any time.
C4_OneConversationFetchInFlight == InFlight(convFetches) <= 1

cursorData == <<pagination, messagesPagination, convFetches, msgFetches,
                loadedConversations, loadedMessages>>

\* C5: a load request made while its cursor has isLoading = TRUE or hasMore = FALSE
\* issues no fetch and changes neither cursor nor the loaded conversations and
\* messages; isLoading = TRUE alone refuses it.
C5_RefusedLoadIsNoOp ==
  [][ /\ ( /\ last'.op = "loadMoreConversations"
           /\ (pagination.isLoading \/ ~pagination.hasMore) )
         => UNCHANGED cursorData
      /\ ( /\ last'.op = "scrollMessages"
           /\ (messagesPagination.isLoading \/ ~messagesPagination.hasMore) )
         => UNCHANGED cursorData ]_vars

\* C5 witness: a scroll of the conversation list was refused while a page was
\* loading although more pages remain.
C5_Witness ==
  /\ last.op = "loadMoreConversations"
  /\ last.refused
  /\ pagination.isLoading
  /\ pagination.hasMore
  /\ InFlight(convFetches) = 1

\* C6: once hasMore of a cursor is FALSE, only a reset of that cursor makes it TRUE
\* again (loadConversationsData / refreshFromBeginning for the conversation cursor,
\* loadConversationMessages for the message cursor); no fetch completion does.
C6_HasMoreFalseIsTerminal ==
  [][ /\ (~pagination.hasMore /\ pagination'.hasMore)
         => last'.op \in {"loadConversationsData", "refreshConversations",
                          "updateFilter", "clearAllFilters"}
      /\ (~messagesPagination.hasMore /\ messagesPagination'.hasMore)
         => last'.op \in {"selectConversation", "retryMessages"} ]_vars

\* C7: a rejected page fetch ends with isLoading = FALSE, currentPage and hasMore
\* unchanged and the loaded conversations and messages unchanged; the load made
\* next on that cursor requests the page that was rejected, and a load that
\* succeeds leaves currentPage one past the page it requested.
C7_RejectedLoadCanBeRetried ==
  [][ /\ last'.op = "conversationsRejected"
         => /\ pagination' = [pagination EXCEPT !.isLoading = FALSE]
            /\ UNCHANGED <<loadedConversations, loadedMessages>>
      /\ last'.op = "messagesRejected"
         => /\ messagesPagination' = [messagesPagination EXCEPT !.isLoading = FALSE]
            /\ UNCHANGED <<loadedConversations, loadedMessages>>
      /\ ( /\ last.op = "conversationsRejected"
           /\ last'.op = "loadMoreConversations" /\ ~last'.refused )
         => last'.page = last.page
      /\ ( /\ last.op = "messagesRejected"
           /\ last'.op \in {"scrollMessages", "retryMessages"} /\ ~last'.refused )
         => (last'.page = last.page /\ last'.conv = last.conv)
      /\ last'.op = "conversationsResolved"
         => pagination'.currentPage = last'.page + 1
      /\ last'.op = "messagesResolved"
         => messagesPagination'.currentPage = last'.page + 1 ]_vars

RECURSIVE PagesUpTo(_)
\* the concatenation of the server's conversation pages 0 .. k-1
PagesUpTo(k) == IF k = 0 THEN <<>> ELSE PagesUpTo(k - 1) \o ServerConversations(k - 1)

\* C8: from a reset of the conversation cursor that found no fetch pending, after k
\* successful loads run one after another, loadedConversations is the
\* concatenation of the server pages 0 .. k-1, currentPage is k and hasMore is
\* the hasMore of the last response.
C8_SequentialLoadsAccumulate ==
  sequential =>
    /\ loadedConversations = PagesUpTo(pagination.currentPage)
    /\ pagination.currentPage > 0
         => pagination.hasMore = ServerConversationsHasMore(pagination.currentPage - 1)

\* C8 witness: a full page and a shorter last page were loaded one after the other.
C8_Witness ==
  /\ sequential
  /\ last.op = "conversationsResolved"
  /\ pagination.currentPage = 2
  /\ ~pagination.hasMore
  /\ Len(loadedConversations) = 3

\* C9: selectConversation(id) makes id the selected conversation, leaves the
\* message cursor reset for id (page 0, hasMore) with its initial load begun,
\* removes the messages cached for id and issues one more fetch, for page 0 of id
\* as an initial load, whatever the cursor held before.
C9_SelectResetsAndLoads ==
  [][ last'.op = "selectConversation"
      => LET id == last'.conv
             fetch == [conversationId |-> id, page |-> 0, isInitialLoad |-> TRUE,
                       stale |-> FALSE]
         IN /\ selectedConversationId' = id
            /\ messagesPagination' =
                 [ResetMessagesPagination(id) EXCEPT !.isLoading = TRUE]
            /\ id \notin DOMAIN loadedMessages'
            /\ CopiesIn(fetch, msgFetches') = 1
            /\ InFlight(msgFetches') = InFlight(msgFetches) + 1 ]_vars

\* C9 witness: a conversation was selected while the cursor belonged to another
\* conversation whose fetch was still loading.
C9_Witness ==
  /\ last.op = "selectConversation"
  /\ last.conv = "A"
  /\ InFlight(msgFetches) = 2
  /\ \E f \in BagToSet(msgFetches) : f.conversationId = "B" /\ f.stale

\* C10: a successful initial load replaces the cached messages of the
\* conversation by the returned page; a successful later load stores the returned
\* page followed by the messages cached before, both in their order.
C10_MergeKeepsOrder ==
  [][ last'.op = "messagesResolved"
      => LET id == last'.conv
             page == ServerMessages(id, last'.page)
             before == GetMessages(loadedMessages, id)
             after == GetMessages(loadedMessages', id)
         IN IF last'.initial
            THEN after = page
            ELSE /\ Len(after) = Len(page) + Len(before)
                 /\ \A k \in DOMAIN page : after[k] = page[k]
                 /\ \A k \in DOMAIN before : after[Len(page) + k] = before[k] ]_vars

\* C10 witness: an older page of two messages was put before two cached messages.
C10_Witness ==
  /\ last.op = "messagesResolved"
  /\ ~last.initial
  /\ last.conv = "A"
  /\ GetMessages(loadedMessages, "A") =
       <<Msg("a1", 1, "user"), Msg("a2", 2, "assistant"), Msg("a3", 3, "user"),
         Msg("n9", 9, "user")>>

\* C11: the response to a message-page fetch that carries messages but no
\* pagination metadata leaves hasMore = FALSE, and until the message cursor is
\* reset no further page of that conversation is requested.
C11_NoMetadataMeansFullyLoaded ==
  [][ /\ ( /\ last'.op = "messagesResolved"
           /\ ~ServerPaginated(last'.conv) )
         => ~messagesPagination'.hasMore
      /\ ( /\ last'.op = "scrollMessages"
           /\ ~last'.refused )
         => last'.conv # fullyLoaded ]_vars

\* C12: a new_message with an id that matches no cached message of the selected
\* conversation grows the cached sequence by exactly one, and the same message
\* delivered again right after it grows the sequence by zero.
C12_SameIdTwiceAddsOnce ==
  [][ ( /\ last'.op = "handleNewMessage"
        /\ last'.conv = selectedConversationId
        /\ last'.message.id # NoId )
      => LET before == GetMessages(loadedMessages, last'.conv)
             after == GetMessages(loadedMessages', last'.conv)
             matched == \E k \in DOMAIN before :
                           \/ before[k].id = last'.message.id
                           \/ /\ before[k].timestamp = last'.message.timestamp
                              /\ before[k].role = last'.message.role
             again == /\ last.op = "handleNewMessage"
                      /\ last.conv = last'.conv
                      /\ last.message = last'.message
                      /\ ~last.refused
         IN /\ ~matched => Len(after) = Len(before) + 1
            /\ again => after = before ]_vars

\* C12 witness: the message n9 was delivered for the selected conversation A
\* although A's cache already held it, and the cache still holds it once.
C12_Witness ==
  /\ last.op = "handleNewMessage"
  /\ last.conv = "A"
  /\ selectedConversationId = "A"
  /\ last.message = Msg("n9", 9, "user")
  /\ last.refused
  /\ Cardinality({k \in DOMAIN GetMessages(loadedMessages, "A") :
                    GetMessages(loadedMessages, "A")[k].id = "n9"}) = 1

\* C13: a pushed message without id whose timestamp and role both equal those of a
\* message cached for the selected conversation is not appended: loadedMessages is
\* unchanged.
C13_SameTimestampAndRoleIsDuplicate ==
  [][ ( /\ last'.op = "handleNewMessage"
        /\ last'.conv = selectedConversationId
        /\ last'.message.id = NoId
        /\ \E k \in DOMAIN GetMessages(loadedMessages, last'.conv) :
              /\ GetMessages(loadedMessages, last'.conv)[k].timestamp
                   = last'.message.timestamp
              /\ GetMessages(loadedMessages, last'.conv)[k].role = last'.message.role )
      => loadedMessages' = loadedMessages ]_vars

\* C13 witness: a push without id that repeats timestamp and role of the cached
\* a3 was refused for the selected conversation A, whose messages all have ids.
C13_Witness ==
  /\ last.op = "handleNewMessage"
  /\ last.conv = "A"
  /\ selectedConversationId = "A"
  /\ last.message = Msg(NoId, 3, "user")
  /\ last.refused
  /\ Msg("a3", 3, "user") \in Range(GetMessages(loadedMessages, "A"))
  /\ \A m \in Range(GetMessages(loadedMessages, "A")) : m.id # NoId

\* C14: a new_message push for a conversation that is not the selected one leaves
\* loadedMessages and the message panel unchanged and calls neither
\* renderCachedMessages nor scrollToBottom.
C14_PushForOtherConversationIgnored ==
  [][ ( /\ last'.op = "handleNewMessage"
        /\ last'.conv # selectedConversationId )
      => /\ loadedMessages' = loadedMessages
         /\ messagesContent' = messagesContent
         /\ ~last'.rendered
         /\ ~last'.scrolled ]_vars

\* C14 witness: a push for B, new to B, arrived while A was selected and shown;
\* no cache entry exists for B.
C14_Witness ==
  /\ last.op = "handleNewMessage"
  /\ last.conv = "B"
  /\ selectedConversationId = "A"
  /\ last.message = Msg("n9", 9, "user")
  /\ "B" \notin DOMAIN loadedMessages
  /\ messagesContent.kind = "messages"

\* C15: a push for the selected conversation that passes the duplicate test is
\* appended as the last cached message of the conversation, rendered and followed
\* by scrollToBottom; a push found to be a duplicate changes neither the cache nor
\* the panel and calls neither renderCachedMessages nor scrollToBottom.
C15_AcceptedPushAppendedAndShown ==
  [][ ( /\ last'.op = "handleNewMessage"
        /\ last'.conv = selectedConversationId )
      => LET before == GetMessages(loadedMessages, last'.conv)
             after == GetMessages(loadedMessages', last'.conv)
         IN IF ~messageExists(before, last'.message)
            THEN /\ Len(after) = Len(before) + 1
                 /\ after[Len(after)] = last'.message
                 /\ \A k \in DOMAIN before : after[k] = before[k]
                 /\ messagesContent' = Panel("messages", after, Null)
                 /\ last'.rendered
                 /\ last'.scrolled
            ELSE /\ loadedMessages' = loadedMessages
                 /\ messagesContent' = messagesContent
                 /\ ~last'.rendered
                 /\ ~last'.scrolled ]_vars

\* C15 witness: a push without id was appended after the three cached messages
\* of A and is shown last.
C15_Witness ==
  /\ last.op = "handleNewMessage"
  /\ last.conv = "A"
  /\ ~last.refused
  /\ last.rendered /\ last.scrolled
  /\ GetMessages(loadedMessages, "A") =
       <<Msg("a1", 1, "user"), Msg("a2", 2, "assistant"), Msg("a3", 3, "user"),
         Msg(NoId, 8, "assistant")>>
  /\ messagesContent = Panel("messages", GetMessages(loadedMessages, "A"), Null)

\* C16: in every reachable state of DataService no polling timer is alive and
\* refreshInterval names none while realTimeEnabled is true.
C16_NoTimerWhileRealTime ==
  realTimeEnabled => ( /\ timers = EmptyBag
                       /\ refreshInterval = NoTimer )

\* C16 witness: 'connected' arrived while a polling timer was running; the timer
\* is gone and realTimeEnabled is true.
C16_Witness ==
  /\ dataLast.op = "connected"
  /\ dataLast.hadTimer
  /\ dataLast.interval = FallbackInterval
  /\ realTimeEnabled
  /\ timers = EmptyBag

\* C17: right after the 'disconnected' handler has run, realTimeEnabled is false
\* and exactly one polling timer is alive, with a period of 5000 ms, whatever
\* timers were started before.
C17_DisconnectedPollsEvery5000 ==
  [][ dataLast'.op = "disconnected"
      => /\ ~realTimeEnabled'
         /\ refreshInterval' = FallbackInterval
         /\ BagToSet(timers') = {FallbackInterval}
         /\ BagCardinality(timers') = 1 ]_vars

\* C18: getConversationsPaginated and getConversationStates answer from the cache,
\* without a request to the server, only when a response cached for the endpoint
\* is younger than 30000 ms if realTimeEnabled is true at the call and younger
\* than 5000 ms if it is false; when there is no such response a request is sent.
C18_CacheWindowFollowsMode ==
  [][ dataLast'.op \in {"getConversationsPaginated", "getConversationStates"}
      => LET window == IF realTimeEnabled THEN 30000 ELSE 5000
             young == \E key \in DOMAIN cacheEntries :
                         /\ key.endpoint = dataLast'.endpoint
                         /\ now - cacheEntries[key] < window
             asked == BagCardinality(dataFetches') = BagCardinality(dataFetches) + 1
         IN /\ dataLast'.hit => ( young /\ dataFetches' = dataFetches )
            /\ ~young => ( dataLast'.contacted /\ asked )
            /\ dataLast'.hit # dataLast'.contacted ]_vars

\* C18 witness: with realTimeEnabled false getConversationStates was answered
\* from a response cached 2500 ms before, while the response cached for
\* getConversationsPaginated was 5000 ms old and the server had to be asked.
C18_Witness ==
  /\ dataLast.op = "getConversationStates"
  /\ dataLast.hit
  /\ ~dataLast.realTime
  /\ ~realTimeEnabled
  /\ cacheKey(StatesEndpoint, PollingCacheDuration) \in DOMAIN cacheEntries
  /\ now - cacheEntries[cacheKey(StatesEndpoint, PollingCacheDuration)] = 2500
  /\ cacheKey(PaginatedEndpoint, PollingCacheDuration) \in DOMAIN cacheEntries
  /\ now - cacheEntries[cacheKey(PaginatedEndpoint, PollingCacheDuration)] = 5000
  /\ \E f \in BagToSet(dataFetches) :
        f.key = cacheKey(PaginatedEndpoint, PollingCacheDuration)

\* what the conversation list shows
Displayed == IF emptyStateShown THEN <<>> ELSE conversationsList

\* the category of a conversation under the state mapping that was rendered
CategoryOf(id) ==
  IF /\ id \in DOMAIN conversationStates
     /\ conversationStates[id] \in {"Claude Code working...", "Awaiting user input...",
                                    "User typing...", "Awaiting response...",
                                    "Recently active"}
  THEN "active"
  ELSE "inactive"

\* the selected time range in seconds, 0 for a value that is no time range
WindowSeconds ==
  CASE filters.timeRange = "1h" -> 3600
    [] filters.timeRange = "24h" -> 86400
    [] filters.timeRange = "7d" -> 604800
    [] filters.timeRange = "30d" -> 2592000
    [] OTHER -> 0

\* C19: with the status filter at 'active' or 'inactive' every conversation shown
\* has that category, and when no other filter is at work the conversations shown
\* are exactly the loaded ones of that category, in their order; the five listed
\* states are active, every other state and a missing entry are inactive.
C19_StatusFilterKeepsCategory ==
  filters.status \in {"active", "inactive"}
  => LET ofCategory(id) == CategoryOf(id) = filters.status
     IN /\ \A id \in Range(Displayed) : ofCategory(id)
        /\ ( WindowSeconds = 0 /\ filters.search = <<>> )
           => Displayed = SelectSeq(loadedConversations, ofCategory)

\* C19 witness: under status 'active' and no time range a mapping was rendered in
\* which A is 'Claude Code working...', B is 'Idle', C is a state that is not
\* listed and E has no entry: A is shown, B, C and E are not.
C19_Witness ==
  /\ last.op = "updateConversationStates"
  /\ filters.status = "active"
  /\ WindowSeconds = 0
  /\ "E" \notin DOMAIN conversationStates
  /\ conversationStates["A"] = "Claude Code working..."
  /\ conversationStates["B"] = "Idle"
  /\ conversationStates["C"] = "Compacting..."
  /\ Displayed = <<"A", "D", "F", "G">>

\* C20: with a time range of T > 0 every conversation shown has
\* lastModified >= now - T, and when no other filter is at work the conversations
\* shown are exactly the loaded ones with lastModified >= now - T; a range that
\* maps to 0 removes nothing; A, modified 2 hours ago, is not shown for '1h' and
\* shown for '24h'.
C20_TimeRangeKeepsRecent ==
  LET recent(id) == ConversationInfo(id).lastModified >= Now - WindowSeconds
      alone == filters.status = "all" /\ filters.search = <<>>
  IN /\ WindowSeconds > 0 => \A id \in Range(Displayed) : recent(id)
     /\ ( WindowSeconds > 0 /\ alone )
        => Displayed = SelectSeq(loadedConversations, recent)
     /\ ( WindowSeconds = 0 /\ alone ) => Displayed = loadedConversations
     /\ ( filters.timeRange = "1h" /\ "A" \in Range(loadedConversations) )
        => "A" \notin Range(Displayed)
     /\ ( filters.timeRange = "24h" /\ alone /\ "A" \in Range(loadedConversations) )
        => "A" \in Range(Displayed)

\* C20 witness: under '1h' and status 'all' the list was rendered: D, modified
\* exactly one hour ago, is shown, E, one second older, and A, two hours old, are
\* not.
C20_Witness ==
  /\ last.op = "updateConversationStates"
  /\ filters.timeRange = "1h"
  /\ filters.status = "all"
  /\ ConversationInfo("D").lastModified = Now - 3600
  /\ Displayed = <<"B", "D">>

\* a text in small letters, letter by letter
Lower(text) ==
  LET small(ch) == CASE ch = "B" -> "b" [] ch = "F" -> "f" [] ch = "G" -> "g"
                     [] ch = "I" -> "i" [] ch = "K" -> "k" [] ch = "O" -> "o"
                     [] ch = "U" -> "u" [] OTHER -> ch
  IN [k \in DOMAIN text |-> small(text[k])]

\* part occurs in text as a run of consecutive characters
Substring(part, text) ==
  \E from \in 1 .. Len(text) + 1 :
     /\ from + Len(part) - 1 <= Len(text)
     /\ \A k \in 1 .. Len(part) : text[from + k - 1] = part[k]

\* the search text occurs, letter case ignored, in title, project or lastMessage
Matches(id) ==
  \E field \in { ConversationInfo(id).title, ConversationInfo(id).project,
                 ConversationInfo(id).lastMessage } :
     Substring(Lower(filters.search), Lower(field))

\* C21: with a non-empty search text every conversation shown has the text,
\* letter case ignored, in its title, project or lastMessage, and when no other
\* filter is at work the conversations shown are exactly the loaded ones that have
\* it; with an empty search text and no other filter nothing is removed.
C21_SearchKeepsMatches ==
  LET alone == filters.status = "all" /\ WindowSeconds = 0
  IN /\ filters.search # <<>> => \A id \in Range(Displayed) : Matches(id)
     /\ ( filters.search # <<>> /\ alone )
        => Displayed = SelectSeq(loadedConversations, Matches)
     /\ ( filters.search = <<>> /\ alone ) => Displayed = loadedConversations

\* C21 witness: the search text BUG, with no other filter, shows exactly A, whose
\* title is "Fix bug"; B, whose title is missing, is not shown.
C21_Witness ==
  /\ last.op = "updateConversationStates"
  /\ filters.search = <<"B", "U", "G">>
  /\ filters.status = "all"
  /\ WindowSeconds = 0
  /\ ConversationInfo("A").title = <<"F", "i", "x", " ", "b", "u", "g">>
  /\ ConversationInfo("B").title = <<>>
  /\ loadedConversations = FilterList
  /\ Displayed = <<"A">>

\* C22: a segment of loadMoreConversations (its start, its success, its failure)
\* changes neither messagesPagination nor loadedMessages, and a segment of
\* loadMoreMessages (its start from a scroll, its success, its failure) changes
\* neither pagination nor loadedConversations.
C22_CursorsAreIndependent ==
  [][ /\ last'.op \in {"loadMoreConversations", "conversationsResolved",
                       "conversationsRejected"}
         => /\ messagesPagination' = messagesPagination
            /\ loadedMessages' = loadedMessages
      /\ last'.op \in {"scrollMessages", "messagesResolved", "messagesRejected"}
         => /\ pagination' = pagination
            /\ loadedConversations' = loadedConversations ]_vars

\* C22 witness: the second conversation page was appended while conversation A
\* was open with cached messages and a message fetch of its own in flight.
C22_Witness ==
  /\ last.op = "conversationsResolved"
  /\ last.page = 1
  /\ loadedConversations = <<"A", "B", "C">>
  /\ messagesPagination.conversationId = "A"
  /\ messagesPagination.isLoading
  /\ GetMessages(loadedMessages, "A") # <<>>
  /\ msgFetches # EmptyBag

\* the mapping M that the last update_conversation_states event carried, given
\* directly or under activeStates
CarriedMapping ==
  IF "activeStates" \in DOMAIN last.payload THEN last.payload.activeStates
  ELSE last.payload

\* M[id], and 'unknown' when M has no entry for id
CarriedState(id) == IF id \in DOMAIN CarriedMapping THEN CarriedMapping[id] ELSE "unknown"

\* C23: after an update_conversation_states event that carried mapping M, directly
\* or under activeStates, the list shows exactly the loaded conversations that
\* pass the filters with state M[id], 'unknown' for an id that M lacks, and each
\* item shows that state.
C23_StatesComeFromCarriedMapping ==
  last.op = "updateConversationStates"
  => LET active(id) == CarriedState(id) \in {"Claude Code working...",
                                             "Awaiting user input...", "User typing...",
                                             "Awaiting response...", "Recently active"}
         kept(id) ==
           /\ filters.status = "active" => active(id)
           /\ filters.status = "inactive" => ~active(id)
           /\ WindowSeconds > 0 => ConversationInfo(id).lastModified >= Now - WindowSeconds
           /\ filters.search # <<>> => Matches(id)
     IN /\ Displayed = SelectSeq(loadedConversations, kept)
        /\ ~emptyStateShown
           => conversationBadges = [k \in DOMAIN Displayed |-> CarriedState(Displayed[k])]

\* C23 witness: a mapping given under activeStates that has no entry for E was
\* rendered under status 'inactive': E is shown as 'unknown', B as 'Idle'.
C23_Witness ==
  /\ last.op = "updateConversationStates"
  /\ "activeStates" \in DOMAIN last.payload
  /\ "E" \notin DOMAIN last.payload.activeStates
  /\ last.payload.activeStates["B"] = "Idle"
  /\ filters = [status |-> "inactive", timeRange |-> "all", search |-> <<>>]
  /\ Displayed = <<"B", "C", "E", "H">>
  /\ conversationBadges = <<"Idle", "Compacting...", "unknown", "Inactive">>

\* C24: apart from the reset itself, currentPage and hasMore of the message
\* cursor change only when the response to a fetch arrives that was issued for
\* the cursor's conversation after the cursor's last reset; the settling of a fetch
\* issued before the last reset leaves isLoading set while a fetch issued after
\* the reset is in flight.
C24_OnlyCurrentFetchMovesMessageCursor ==
  [][ /\ ( \/ messagesPagination'.currentPage # messagesPagination.currentPage
           \/ messagesPagination'.hasMore # messagesPagination.hasMore )
         => \/ last'.op \in {"selectConversation", "retryMessages"}
            \/ /\ last'.op = "messagesResolved"
               /\ ~last'.stale
               /\ last'.conv = messagesPagination.conversationId
      /\ ( /\ last'.op \in {"messagesResolved", "messagesEmpty", "messagesRejected"}
           /\ last'.stale
           /\ \E f \in BagToSet(msgFetches') : ~f.stale )
         => messagesPagination'.isLoading ]_vars

\* C25: whenever no conversation fetch is pending, loadedConversations is the
\* server pages 0 .. currentPage - 1 in page order, each once, and no conversation
\* id occurs in it twice.
C25_SettledListIsPagesInOrder ==
  convFetches = EmptyBag
  => /\ loadedConversations = PagesUpTo(pagination.currentPage)
     /\ \A j, k \in DOMAIN loadedConversations :
           loadedConversations[j] = loadedConversations[k] => j = k

\* C26: no polling tick notifies the listeners of 'conversations' and 'states'
\* while realTimeEnabled is true.
C26_NoPollNotificationWhileRealTime ==
  ( dataLast.op = "pollResolved" /\ dataLast.notified ) => ~realTimeEnabled

\* C27: once a conversation_state_change or data_refresh push event has been
\* handled, no getConversationStates call returns a response whose request was
\* issued before that event.
C27_NoResponseFromBeforeTheEvent ==
  dataLast.op = "getConversationStates" => ~dataLast.outdated

\* C28: a pushed message for the selected conversation that has no id, and whose
\* (timestamp, role) pair is that of no cached message, is appended to the cached
\* messages, also when cached messages have no id themselves.
C28_IdlessPushIsAppended ==
  [][ LET message == last'.message
          cached == GetMessages(loadedMessages, last'.conv)
      IN ( /\ last'.op = "handleNewMessage"
           /\ last'.conv = selectedConversationId
           /\ message.id = NoId
           /\ \A k \in DOMAIN cached :
                ~( cached[k].timestamp = message.timestamp
                   /\ cached[k].role = message.role ) )
         => GetMessages(loadedMessages', last'.conv) = Append(cached, message) ]_vars

\* C29: the cached messages of a conversation never hold two messages with the
\* same defined id, whatever initial loads, older-page loads and new_message
\* pushes have happened.
C29_NoDefinedIdTwice ==
  \A c \in DOMAIN loadedMessages :
     \A j, k \in DOMAIN loadedMessages[c] :
        ( j # k /\ loadedMessages[c][j].id # NoId )
          => loadedMessages[c][j].id # loadedMessages[c][k].id

\* C30: while a conversation stays selected, the messages displayed before
\* handleNewMessage appends a message, or before a non-initial loadMoreMessages
\* merges a page, are all in the list rendered afterwards, also when a filter
\* change or a reload of the conversation list happened since they were loaded.
C30_DisplayedMessagesStay ==
  [][ ( /\ selectedConversationId # Null
        /\ selectedConversationId' = selectedConversationId
        /\ last'.conv = selectedConversationId
        /\ last'.rendered
        /\ \/ last'.op = "handleNewMessage"
           \/ last'.op = "messagesResolved" /\ ~last'.initial )
      => Range(messagesContent.messages) \subseteq Range(messagesContent'.messages) ]_vars

\* C31: after every successful loadMoreConversations, of page 0 or of a later
\* page, the count shown in the sidebar is the number of items in the list, which
\* is the filtered view of all the conversations loaded so far.
C31_CountIsListLength ==
  last.op = "conversationsResolved"
    => /\ sidebarCount = Len(conversationsList)
       /\ conversationsList = filterConversations(loadedConversations, conversationStates)

\* the state stored for a conversation in the state service, 'unknown' without one
StoredState(id) == StateOf(StoredStates, id)

\* C32: on a conversation_state_change event the list shows exactly the loaded
\* conversations that pass the filters with the state stored for them in the
\* state service, and each item shows that state: a conversation with a stored
\* state is not shown as 'unknown'.
C32_RefreshUsesStoredStates ==
  last.op = "handleConversationStateChange"
  => LET active(id) == StoredState(id) \in {"Claude Code working...",
                                            "Awaiting user input...", "User typing...",
                                            "Awaiting response...", "Recently active"}
         kept(id) ==
           /\ filters.status = "active" => active(id)
           /\ filters.status = "inactive" => ~active(id)
           /\ WindowSeconds > 0 => ConversationInfo(id).lastModified >= Now - WindowSeconds
           /\ filters.search # <<>> => Matches(id)
     IN /\ Displayed = SelectSeq(loadedConversations, kept)
        /\ ~emptyStateShown
           => conversationBadges = [k \in DOMAIN Displayed |-> StoredState(Displayed[k])]

\* C33: a cursor whose isLoading is true gets isLoading false again on the
\* current cursor once the fetch settles, by a response, a response without
\* usable data or a failure: no cursor stays in the loading state for ever.
C33_LoadingEnds ==
  /\ pagination.isLoading ~> ~pagination.isLoading
  /\ messagesPagination.isLoading ~> ~messagesPagination.isLoading

\* C33 witness: the fetch of the selected conversation resolved without usable
\* data, no fetch is awaited and the cursor is not loading.
C33_Witness ==
  /\ last.op = "messagesEmpty"
  /\ last.conv = selectedConversationId
  /\ ~last.stale
  /\ msgFetches = EmptyBag
  /\ ~messagesPagination.isLoading

\* C34: loadMoreMessages called for a conversation other than the one of the
\* message cursor, as by the scroll listener installed for a conversation selected
\* earlier, issues no fetch and changes neither the cursor nor loadedMessages.
C34_OtherConversationLoadsNothing ==
  [][ ( /\ last'.op = "scrollMessages"
        /\ last'.conv # messagesPagination.conversationId )
      => /\ msgFetches' = msgFetches
         /\ messagesPagination' = messagesPagination
         /\ loadedMessages' = loadedMessages ]_vars

\* C34 witness: the scroll listener of a conversation selected earlier called
\* loadMoreMessages while the cursor of another conversation could have loaded,
\* and nothing was fetched.
C34_Witness ==
  /\ last.op = "scrollMessages"
  /\ last.conv # messagesPagination.conversationId
  /\ last.conv = messagesScrollListener
  /\ messagesPagination.hasMore
  /\ ~messagesPagination.isLoading
  /\ last.refused

\* C35: when the request of cachedFetch fails, the call resolves with the
\* response cached under its key if there is one, however old, and rejects only
\* when there is none; the failed call leaves the cache as it was.
C35_FailureFallsBackToCache ==
  [][ dataLast'.op = "dataFetchRejected"
      => \E f \in BagToSet(dataFetches) :
            /\ dataFetches' = dataFetches (-) SetToBag({f})
            /\ dataLast'.hit <=> f.key \in DOMAIN cacheEntries
            /\ cacheEntries' = cacheEntries ]_vars

\* C35 witness: the only cached response, that of getConversationStates in
\* polling mode, was 5000 ms old, so the server was asked; the request failed and
\* the call resolved with the cached response.
C35_Witness ==
  /\ dataLast.op = "dataFetchRejected"
  /\ dataLast.endpoint = StatesEndpoint
  /\ dataLast.hit
  /\ DOMAIN cacheEntries = {cacheKey(StatesEndpoint, PollingCacheDuration)}
  /\ now - cacheEntries[cacheKey(StatesEndpoint, PollingCacheDuration)] >= PollingCacheDuration

\* C36: DataService never has more than one polling timer alive, whatever
\* sequence of startPeriodicRefresh, startFallbackPolling, stopFallbackPolling,
\* stopPeriodicRefresh, 'connected', 'disconnected' and setWebSocketService
\* calls has run.
C36_AtMostOneTimer == BagCardinality(timers) <= 1

\* C36 witness: startPeriodicRefresh ran while a timer was alive, and one timer,
\* the new one, is alive.
C36_Witness ==
  /\ dataLast.op = "startPeriodicRefresh"
  /\ dataLast.hadTimer
  /\ dataLast.interval = DefaultInterval
  /\ refreshInterval = DefaultInterval
  /\ timers = SetToBag({DefaultInterval})

\* C37: in the variant of src/unnamed/part_000, with status 'active' a
\* conversation inside the time range whose state is 'Claude Code working...' is
\* in the rendered list and one whose state is 'Idle' is not.
C37_VariantStatusUsesCategory ==
  ( /\ last.op = "updateConversationStates"
    /\ "activeStates" \in DOMAIN last.payload
    /\ filters = [status |-> "active", timeRange |-> "7d", search |-> <<>>] )
  => \A k \in DOMAIN loadedConversations :
        LET id == loadedConversations[k]
            state == StateOf(last.payload.activeStates, id)
            inRange == ConversationInfo(id).lastModified >= Now - WindowSeconds
        IN /\ ( inRange /\ state = "Claude Code working..." ) => id \in Range(Displayed)
           /\ state = "Idle" => id \notin Range(Displayed)

\* C38: in the variant of src/unnamed/part_000, every selectConversation(id)
\* drops the messages cached for id and issues a fetch for them, so that no
\* messages cached by an earlier selection are displayed for the new one.
C38_VariantSelectionFetchesAgain ==
  [][ last'.op = "selectConversation"
      => /\ last'.conv \notin DOMAIN loadedMessages'
         /\ \E f \in BagToSet(msgFetches') :
               /\ f.conversationId = last'.conv
               /\ CopiesIn(f, msgFetches') = CopiesIn(f, msgFetches) + 1
         /\ messagesContent'.kind # "messages" ]_vars

====
